---- MODULE Spec2Model ----
(***************************************************************************)
(* Model of the pooled TCP/HTTP echo server: MultiThreadedTCPServer (the   *)
(* worker pool, the accept loop and stop()), on top of TCPServer, and of   *)
(* the buffered socket reader HttpReader.                                  *)
(*                                                                         *)
(* Specifications in this module: Spec is the server, i.e. the main thread *)
(* (start(), run()), the worker threads and the callers of stop();         *)
(* FairSpec is Spec under fair scheduling; SpecRestart is Spec with a      *)
(* further start() after shutdown; SpecCtor is the constructor alone, for  *)
(* any worker count; SpecReader is one HttpReader over one socket whose    *)
(* byte stream may be cut into arbitrary segments; SpecChunked and         *)
(* SpecSizeLine are read_chunked on well-formed and on malformed streams;  *)
(* SpecHeaders is parse_headers on one header line; SpecHandler is one     *)
(* call of handle_connection; SpecSend is one call of send_all;            *)
(* SpecLifetime is Spec with a start() after a failed one and with the     *)
(* destructor.  The variables of the part a specification does not use     *)
(* keep their initial values.                                              *)
(***************************************************************************)
EXTENDS Integers, Sequences, FiniteSets, TLC

(***************************************************************************)
(* Bounds of the model.                                                    *)
(***************************************************************************)
\* largest worker count of a running server
MaxThreadsArg == 2
\* largest worker count passed to the constructor when it is checked alone
MaxCtorArg == 60
\* number of client connections that ever arrive
MaxConns == 2
\* number of threads, other than the one inside run(), that may call stop()
NumStoppers == 2
\* longest byte stream a peer sends
MaxStream == 4
\* largest buffer size a reader is constructed with
MaxBuf == 3
\* largest length asked of read_fixed
MaxFixed == 3
\* number of successive calls made on one reader
MaxCalls == 2

(***************************************************************************)
(* Program constants.                                                      *)
(***************************************************************************)
\* the count the constructor substitutes for a non-positive argument
DefaultThreads == 4
\* the descriptor number socket() returns for the listening socket
ListenFd == 3

NoFd == -1

VARIABLES
    threads_arg,     \* the constructor's argument `threads`
    num_threads,     \* const size_t num_threads
    ctor_threw,      \* the constructor raised
    server_fd,       \* TCPServer::server_fd (-1 or a descriptor number)
    lsock,           \* kernel state of the listening socket
    workers_size,    \* workers.size()
    wpc,             \* position of each worker thread in worker_thread()
    wfd,             \* worker_thread()'s local client_fd
    wout,            \* how each worker's last handle_connection call ended
    client_queue,    \* std::queue<int> client_queue
    queue_mutex,     \* holder of queue_mutex: 0 when free, else a thread id
    stop_requested,  \* std::atomic<bool> stop_requested
    mpc,             \* position of the main thread (start(), run())
    afd,             \* run()'s local client_fd
    aerrno,          \* errno left by a failed accept()
    next_conn,       \* the next connection the kernel will hand to accept()
    spc,             \* position of each caller of stop()
    sjoin,           \* index of stop()'s range-for over workers
    popped,          \* history: the workers that popped each connection
    handled,         \* history: the workers that ran the handler on it
    closed,          \* history: who closed each connection's descriptor
    pushed_live,     \* history: connections pushed while the flag was false
    parked_at_stop,  \* history: all workers were parked when the flag was set
    rd,              \* the HttpReader object: buffer_, bufflen_, pos_
    sock,            \* the socket under the reader: bytes still to arrive
    rcall,           \* history: the reader calls made and what they returned
    hcall            \* history: the handler call made and how it ended

srvVars == <<threads_arg, num_threads, ctor_threw, server_fd, lsock,
             workers_size, wpc, wfd, wout, client_queue, queue_mutex,
             stop_requested, mpc, afd, aerrno, next_conn, spc, sjoin,
             popped, handled, closed, pushed_live, parked_at_stop>>

ctorVars == <<threads_arg, num_threads, ctor_threw>>
lsnVars == <<server_fd, lsock>>
poolVars == <<workers_size, wpc, wfd, wout, client_queue, queue_mutex>>
mainVars == <<mpc, afd, aerrno, next_conn>>
stopVars == <<spc, sjoin>>
histVars == <<popped, handled, closed, pushed_live, parked_at_stop>>
rdVars == <<rd, sock, rcall, hcall>>
vars == <<srvVars, rdVars>>

Conns == 1..MaxConns
Workers == 1..num_threads
\* thread ids for the mutex: workers are 1..num_threads, the others follow
MainThread == 100
Stopper(c) == 200 + c
\* callers of stop(): 0 is the main thread at the end of run()
Callers == 0..NumStoppers
CallerThread(c) == IF c = 0 THEN MainThread ELSE Stopper(c)
StopThreads == {CallerThread(c) : c \in Callers}

Errnos == {"EINTR", "EAGAIN", "EMFILE", "EINVAL"}

(***************************************************************************)
(* MultiThreadedTCPServer::MultiThreadedTCPServer                          *)
(***************************************************************************)
Ctor(threads) ==
    LET n == IF threads > 0 THEN threads ELSE DefaultThreads
    IN  [num_threads |-> n, threw |-> (n = 0)]

\* the server object as the constructor leaves it; before the constructor
\* has run (mpc = "unconstructed") the fields hold placeholders
Fields(threads, pc) ==
    /\ threads_arg = threads
    /\ num_threads = IF pc = "unconstructed" THEN 0 ELSE Ctor(threads).num_threads
    /\ ctor_threw = IF pc = "unconstructed" THEN FALSE ELSE Ctor(threads).threw
    /\ mpc = pc
    /\ server_fd = NoFd
    /\ lsock = "none"
    /\ workers_size = 0
    /\ wpc = [w \in Workers |-> "unborn"]
    /\ wfd = [w \in Workers |-> NoFd]
    /\ wout = [w \in Workers |-> "none"]
    /\ client_queue = <<>>
    /\ queue_mutex = 0
    /\ stop_requested = FALSE
    /\ afd = NoFd
    /\ aerrno = "none"
    /\ next_conn = 1
    /\ spc = [c \in Callers |-> "idle"]
    /\ sjoin = [c \in Callers |-> 0]
    /\ popped = [c \in Conns |-> <<>>]
    /\ handled = [c \in Conns |-> <<>>]
    /\ closed = [c \in Conns |-> <<>>]
    /\ pushed_live = {}
    /\ parked_at_stop = FALSE

\* no reader is under study
ReaderIdle ==
    /\ rd = <<>>
    /\ sock = <<>>
    /\ rcall = <<>>
    /\ hcall = <<>>

\* a server constructed with 1..MaxThreadsArg worker threads
InitServer ==
    /\ \E threads \in 1..MaxThreadsArg : Fields(threads, "constructed")
    /\ ReaderIdle

\* the constructor alone: any argument, zero included
InitCtor ==
    /\ \E threads \in 0..MaxCtorArg : Fields(threads, "unconstructed")
    /\ ReaderIdle

Construct ==
    /\ mpc = "unconstructed"
    /\ num_threads' = Ctor(threads_arg).num_threads
    /\ ctor_threw' = Ctor(threads_arg).threw
    /\ mpc' = IF Ctor(threads_arg).threw THEN "ctor_threw" ELSE "constructed"
    /\ wpc' = [w \in 1..Ctor(threads_arg).num_threads |-> "unborn"]
    /\ wfd' = [w \in 1..Ctor(threads_arg).num_threads |-> NoFd]
    /\ wout' = [w \in 1..Ctor(threads_arg).num_threads |-> "none"]
    /\ UNCHANGED <<threads_arg, lsnVars, workers_size, client_queue,
                   queue_mutex, stop_requested, afd, aerrno, next_conn,
                   stopVars, histVars, rdVars>>

(***************************************************************************)
(* TCPServer::start: socket, setsockopt, bind, listen.  `fail` is the step *)
(* that fails ("none" when all succeed).  A failure after socket() closes  *)
(* the descriptor and leaves its number in server_fd.                      *)
(***************************************************************************)
StartSteps == {"none", "socket", "setsockopt", "bind", "listen"}

\* BaseStart going on after a failed listen()
BaseStart_IgnoreListen(fd, fail) ==
    IF fd >= 0 THEN [server_fd |-> fd, lsock |-> lsock, threw |-> FALSE]
    ELSE IF fail = "socket" THEN [server_fd |-> -1, lsock |-> "none", threw |-> TRUE]
    ELSE IF fail \in {"setsockopt", "bind"}
         THEN [server_fd |-> ListenFd, lsock |-> "closed", threw |-> TRUE]
    ELSE IF fail = "listen"
         THEN [server_fd |-> ListenFd, lsock |-> "closed", threw |-> FALSE]
    ELSE [server_fd |-> ListenFd, lsock |-> "listening", threw |-> FALSE]

BaseStart(fd, fail) ==
    IF fd >= 0 THEN [server_fd |-> fd, lsock |-> lsock, threw |-> FALSE]
    ELSE IF fail = "socket" THEN [server_fd |-> -1, lsock |-> "none", threw |-> TRUE]
    ELSE IF fail \in {"setsockopt", "bind", "listen"}
         THEN [server_fd |-> ListenFd, lsock |-> "closed", threw |-> TRUE]
    ELSE [server_fd |-> ListenFd, lsock |-> "listening", threw |-> FALSE]

(***************************************************************************)
(* MultiThreadedTCPServer::start                                           *)
(***************************************************************************)
StartBody(fail) ==
    /\ IF workers_size # 0
       THEN UNCHANGED <<server_fd, lsock, stop_requested, workers_size, wpc, mpc>>
       ELSE LET r == BaseStart(server_fd, fail) IN
            /\ server_fd' = r.server_fd
            /\ lsock' = r.lsock
            /\ IF r.threw
               THEN /\ mpc' = "start_threw"
                    /\ UNCHANGED <<stop_requested, workers_size, wpc>>
               ELSE /\ stop_requested' = FALSE
                    /\ workers_size' = num_threads
                    /\ wpc' = [w \in Workers |-> "wait"]
                    /\ mpc' = "started"
    /\ UNCHANGED <<ctorVars, wfd, wout, client_queue, queue_mutex, afd, aerrno,
                   next_conn, stopVars, histVars, rdVars>>

\* the first start() of a constructed server, as main() calls it
Start(fail) ==
    /\ mpc = "constructed"
    /\ ~ctor_threw
    /\ StartBody(fail)

(***************************************************************************)
(* MultiThreadedTCPServer::worker_thread                                   *)
(***************************************************************************)
\* the predicate of condition.wait
WaitPred == client_queue # <<>> \/ stop_requested

\* condition.wait, first half: take queue_mutex and evaluate the predicate
\* (lines 46-47).  A worker whose predicate is false still holds the mutex
\* and has not yet blocked.
WorkerWait(w) ==
    /\ wpc[w] = "wait"
    /\ queue_mutex = 0
    /\ queue_mutex' = w
    /\ wpc' = [wpc EXCEPT ![w] = IF WaitPred THEN "check" ELSE "prewait"]
    /\ UNCHANGED <<ctorVars, lsnVars, workers_size, wfd, wout, client_queue,
                   stop_requested, mainVars, stopVars, histVars, rdVars>>

\* condition.wait, second half: release the mutex and park on the
\* condition variable, atomically
WorkerBlock(w) ==
    /\ wpc[w] = "prewait"
    /\ queue_mutex' = 0
    /\ wpc' = [wpc EXCEPT ![w] = "waiting"]
    /\ UNCHANGED <<ctorVars, lsnVars, workers_size, wfd, wout, client_queue,
                   stop_requested, mainVars, stopVars, histVars, rdVars>>

\* a spurious wake-up: the worker goes back to take the mutex and
\* re-evaluate the predicate
SpuriousWake(w) ==
    /\ wpc[w] = "waiting"
    /\ wpc' = [wpc EXCEPT ![w] = "wait"]
    /\ UNCHANGED <<ctorVars, lsnVars, workers_size, wfd, wout, client_queue,
                   queue_mutex, stop_requested, mainVars, stopVars, histVars,
                   rdVars>>

\* WorkerCheck with the exit test reduced to the flag alone
WorkerCheck_ExitOnStop(w) ==
    /\ wpc[w] = "check"
    /\ queue_mutex' = 0
    /\ IF stop_requested
       THEN /\ wpc' = [wpc EXCEPT ![w] = "exited"]
            /\ UNCHANGED <<wfd, client_queue, popped>>
       ELSE IF client_queue # <<>>
       THEN /\ wfd' = [wfd EXCEPT ![w] = Head(client_queue)]
            /\ client_queue' = Tail(client_queue)
            /\ popped' = [popped EXCEPT ![Head(client_queue)] = Append(@, w)]
            /\ wpc' = [wpc EXCEPT ![w] = "handle"]
       ELSE /\ wpc' = [wpc EXCEPT ![w] = "wait"]
            /\ UNCHANGED <<wfd, client_queue, popped>>
    /\ UNCHANGED <<ctorVars, lsnVars, workers_size, wout, stop_requested, mainVars,
                   stopVars, handled, closed, pushed_live, parked_at_stop,
                   rdVars>>

\* WorkerCheck reading front() without pop()
WorkerCheck_NoPop(w) ==
    /\ wpc[w] = "check"
    /\ queue_mutex' = 0
    /\ IF stop_requested /\ client_queue = <<>>
       THEN /\ wpc' = [wpc EXCEPT ![w] = "exited"]
            /\ UNCHANGED <<wfd, client_queue, popped>>
       ELSE IF client_queue # <<>>
       THEN /\ wfd' = [wfd EXCEPT ![w] = Head(client_queue)]
            /\ client_queue' = client_queue
            /\ popped' = [popped EXCEPT ![Head(client_queue)] = Append(@, w)]
            /\ wpc' = [wpc EXCEPT ![w] = "handle"]
       ELSE /\ wpc' = [wpc EXCEPT ![w] = "wait"]
            /\ UNCHANGED <<wfd, client_queue, popped>>
    /\ UNCHANGED <<ctorVars, lsnVars, workers_size, wout, stop_requested, mainVars,
                   stopVars, handled, closed, pushed_live, parked_at_stop,
                   rdVars>>

\* WorkerCheck taking the newest element of the queue instead of front()
WorkerCheck_PopBack(w) ==
    /\ wpc[w] = "check"
    /\ queue_mutex' = 0
    /\ IF stop_requested /\ client_queue = <<>>
       THEN /\ wpc' = [wpc EXCEPT ![w] = "exited"]
            /\ UNCHANGED <<wfd, client_queue, popped>>
       ELSE IF client_queue # <<>>
       THEN /\ wfd' = [wfd EXCEPT ![w] = client_queue[Len(client_queue)]]
            /\ client_queue' = SubSeq(client_queue, 1, Len(client_queue) - 1)
            /\ popped' = [popped EXCEPT ![client_queue[Len(client_queue)]] =
                                           Append(@, w)]
            /\ wpc' = [wpc EXCEPT ![w] = "handle"]
       ELSE /\ wpc' = [wpc EXCEPT ![w] = "wait"]
            /\ UNCHANGED <<wfd, client_queue, popped>>
    /\ UNCHANGED <<ctorVars, lsnVars, workers_size, wout, stop_requested, mainVars,
                   stopVars, handled, closed, pushed_live, parked_at_stop,
                   rdVars>>

\* lines 50-66, under the mutex: exit, pop, or loop again
WorkerCheck(w) ==
    /\ wpc[w] = "check"
    /\ queue_mutex' = 0
    /\ IF stop_requested /\ client_queue = <<>>
       THEN /\ wpc' = [wpc EXCEPT ![w] = "exited"]
            /\ UNCHANGED <<wfd, client_queue, popped>>
       ELSE IF client_queue # <<>>
       THEN /\ wfd' = [wfd EXCEPT ![w] = Head(client_queue)]
            /\ client_queue' = Tail(client_queue)
            /\ popped' = [popped EXCEPT ![Head(client_queue)] = Append(@, w)]
            /\ wpc' = [wpc EXCEPT ![w] = "handle"]
       ELSE /\ wpc' = [wpc EXCEPT ![w] = "wait"]
            /\ UNCHANGED <<wfd, client_queue, popped>>
    /\ UNCHANGED <<ctorVars, lsnVars, workers_size, wout, stop_requested, mainVars,
                   stopVars, handled, closed, pushed_live, parked_at_stop,
                   rdVars>>

\* How a handle_connection call can end for the worker: it returned, with
\* the response sent or with a failure that handle_connection dealt with
\* itself ("returned"), or an exception left it ("raised").
HandlerOutcomes == {"returned", "raised"}

\* WorkerHandle without the try/catch around handle_connection: an exception
\* that leaves the handler ends the thread
WorkerHandle_Rethrow(w, o) ==
    /\ wpc[w] = "handle"
    /\ IF wfd[w] >= 0
       THEN /\ handled' = [handled EXCEPT ![wfd[w]] = Append(@, w)]
            /\ wout' = [wout EXCEPT ![w] = o]
            /\ wpc' = [wpc EXCEPT ![w] = IF o = "raised" THEN "exited" ELSE "close"]
       ELSE /\ wpc' = [wpc EXCEPT ![w] = "wait"]
            /\ UNCHANGED <<handled, wout>>
    /\ UNCHANGED <<ctorVars, lsnVars, workers_size, wfd, client_queue,
                   queue_mutex, stop_requested, mainVars, stopVars, popped,
                   closed, pushed_live, parked_at_stop, rdVars>>

\* WorkerHandle with the handler call abandoned, and the thread ended, when
\* the StopFlag is set
WorkerHandle_AbortOnStop(w, o) ==
    /\ wpc[w] = "handle"
    /\ IF wfd[w] >= 0
       THEN /\ handled' = [handled EXCEPT ![wfd[w]] = Append(@, w)]
            /\ wout' = [wout EXCEPT ![w] = o]
            /\ wpc' = [wpc EXCEPT ![w] = IF stop_requested THEN "exited"
                                         ELSE "close"]
       ELSE /\ wpc' = [wpc EXCEPT ![w] = "wait"]
            /\ UNCHANGED <<handled, wout>>
    /\ UNCHANGED <<ctorVars, lsnVars, workers_size, wfd, client_queue,
                   queue_mutex, stop_requested, mainVars, stopVars, popped,
                   closed, pushed_live, parked_at_stop, rdVars>>

\* lines 69-78: TCPServer::handle_connection(client_fd); whatever it raises
\* is caught here
WorkerHandle(w, o) ==
    /\ wpc[w] = "handle"
    /\ IF wfd[w] >= 0
       THEN /\ handled' = [handled EXCEPT ![wfd[w]] = Append(@, w)]
            /\ wout' = [wout EXCEPT ![w] = o]
            /\ wpc' = [wpc EXCEPT ![w] = "close"]
       ELSE /\ wpc' = [wpc EXCEPT ![w] = "wait"]
            /\ UNCHANGED <<handled, wout>>
    /\ UNCHANGED <<ctorVars, lsnVars, workers_size, wfd, client_queue,
                   queue_mutex, stop_requested, mainVars, stopVars, popped,
                   closed, pushed_live, parked_at_stop, rdVars>>

\* lines 80-82: TCPServer::close_socket(client_fd), then the next iteration
\* starts with client_fd = -1 and nothing kept of the handler's outcome
WorkerClose(w) ==
    /\ wpc[w] = "close"
    /\ closed' = [closed EXCEPT ![wfd[w]] = Append(@, w)]
    /\ wfd' = [wfd EXCEPT ![w] = NoFd]
    /\ wout' = [wout EXCEPT ![w] = "none"]
    /\ wpc' = [wpc EXCEPT ![w] = "wait"]
    /\ UNCHANGED <<ctorVars, lsnVars, workers_size, client_queue, queue_mutex,
                   stop_requested, mainVars, stopVars, popped, handled,
                   pushed_live, parked_at_stop, rdVars>>

\* the workers parked on the condition variable
Waiting == {w \in Workers : wpc[w] = "waiting"}

\* every worker is parked in the condition wait and the queue is empty
AllParked == Waiting = Workers /\ client_queue = <<>>

\* notify_one with the woken worker going on without evaluating the
\* predicate again
NotifyOne_NoRecheck(pc, w) ==
    IF Waiting = {} THEN pc ELSE [pc EXCEPT ![w] = "check"]

\* condition.notify_one: wakes one parked worker, if there is one
NotifyOne(pc, w) ==
    IF Waiting = {} THEN pc ELSE [pc EXCEPT ![w] = "wait"]

\* notify_all waking a single parked worker
NotifyAll_One(pc) ==
    [w \in DOMAIN pc |->
        IF pc[w] = "waiting" /\ \A v \in DOMAIN pc : pc[v] = "waiting" => w <= v
        THEN "wait" ELSE pc[w]]

\* condition.notify_all: wakes every parked worker
NotifyAll(pc) ==
    [w \in DOMAIN pc |-> IF pc[w] = "waiting" THEN "wait" ELSE pc[w]]

(***************************************************************************)
(* MultiThreadedTCPServer::run                                             *)
(***************************************************************************)
\* lines 130-137: the checks before the loop
Run ==
    /\ mpc \in {"constructed", "started"}
    /\ ~ctor_threw
    /\ mpc' = IF server_fd < 0 \/ workers_size = 0 THEN "run_threw" ELSE "loop"
    /\ UNCHANGED <<ctorVars, lsnVars, poolVars, stop_requested, afd, aerrno,
                   next_conn, stopVars, histVars, rdVars>>

\* line 139: while (!stop_requested)
LoopTest ==
    /\ mpc = "loop"
    /\ mpc' = IF ~stop_requested THEN "accept" ELSE "after_loop"
    /\ UNCHANGED <<ctorVars, lsnVars, poolVars, stop_requested, afd, aerrno,
                   next_conn, stopVars, histVars, rdVars>>

\* line 145: accept() returns a new connection
AcceptOk ==
    /\ mpc = "accept"
    /\ lsock = "listening"
    /\ next_conn <= MaxConns
    /\ afd' = next_conn
    /\ next_conn' = next_conn + 1
    /\ mpc' = "push"
    /\ UNCHANGED <<ctorVars, lsnVars, poolVars, stop_requested, aerrno,
                   stopVars, histVars, rdVars>>

\* line 145: accept() fails.  On a listening socket it fails with a
\* transient error; once the socket has been shut down it fails with EINVAL.
AcceptErr(e) ==
    /\ mpc = "accept"
    /\ \/ lsock = "listening" /\ e \in {"EINTR", "EAGAIN", "EMFILE"}
       \/ lsock # "listening" /\ e = "EINVAL"
    /\ aerrno' = e
    /\ mpc' = "accept_failed"
    /\ UNCHANGED <<ctorVars, lsnVars, poolVars, stop_requested, afd,
                   next_conn, stopVars, histVars, rdVars>>

\* lines 154-168: the sleep_for, in milliseconds, before the `continue` of
\* each failure branch
RetryDelayMs(e) ==
    IF e = "EINTR" THEN 0
    ELSE IF e = "EAGAIN" THEN 50
    ELSE 100

\* AcceptFailed leaving the loop on every error other than EINTR
AcceptFailed_BreakOnError ==
    /\ mpc = "accept_failed"
    /\ mpc' = IF stop_requested THEN "after_loop"
              ELSE IF aerrno = "EINTR" THEN "loop"
              ELSE "after_loop"
    /\ aerrno' = "none"
    /\ UNCHANGED <<ctorVars, lsnVars, poolVars, stop_requested, afd,
                   next_conn, stopVars, histVars, rdVars>>

\* lines 147-169: the failure branches
AcceptFailed ==
    /\ mpc = "accept_failed"
    /\ mpc' = IF stop_requested THEN "after_loop"
              ELSE IF aerrno = "EINTR" THEN "loop"
              ELSE IF aerrno = "EAGAIN" THEN "loop"
              ELSE "loop"
    /\ aerrno' = "none"
    /\ UNCHANGED <<ctorVars, lsnVars, poolVars, stop_requested, afd,
                   next_conn, stopVars, histVars, rdVars>>

\* lines 178-182: push under the mutex
Push ==
    /\ mpc = "push"
    /\ queue_mutex = 0
    /\ client_queue' = Append(client_queue, afd)
    /\ pushed_live' = IF stop_requested THEN pushed_live
                      ELSE pushed_live \cup {afd}
    /\ afd' = NoFd
    /\ mpc' = "notify"
    /\ UNCHANGED <<ctorVars, lsnVars, workers_size, wpc, wfd, wout, queue_mutex,
                   stop_requested, aerrno, next_conn, stopVars, popped,
                   handled, closed, parked_at_stop, rdVars>>

\* line 185: condition.notify_one()
Notify ==
    /\ mpc = "notify"
    /\ \E w \in Workers :
          /\ Waiting # {} => w \in Waiting
          /\ wpc' = NotifyOne(wpc, w)
    /\ mpc' = "loop"
    /\ UNCHANGED <<ctorVars, lsnVars, workers_size, wfd, wout, client_queue,
                   queue_mutex, stop_requested, afd, aerrno, next_conn,
                   stopVars, histVars, rdVars>>

\* lines 189-195: after the loop run() calls stop() itself when the flag is
\* not set, and returns
AfterLoop ==
    /\ mpc = "after_loop"
    /\ mpc' = IF ~stop_requested THEN "in_stop" ELSE "returned"
    /\ UNCHANGED <<ctorVars, lsnVars, poolVars, stop_requested, afd, aerrno,
                   next_conn, stopVars, histVars, rdVars>>


(***************************************************************************)
(* MultiThreadedTCPServer::stop, run by caller c.  Callers 1..NumStoppers  *)
(* are threads other than the main thread (the signal handler, another     *)
(* owner of the server) and call stop() once start() has returned; caller  *)
(* 0 is the main thread at the end of run().                               *)
(***************************************************************************)
MayCallStop(c) ==
    /\ spc[c] = "idle"
    /\ IF c = 0 THEN mpc = "in_stop"
       ELSE mpc \notin {"constructed", "start_threw", "run_threw"}

\* what a return from stop() does to the main thread's position
MainAfterStop(c) == IF c = 0 THEN "returned" ELSE mpc

\* StopExchange ignoring what exchange(true) returned
StopExchange_NoCheck(c) ==
    /\ MayCallStop(c)
    /\ stop_requested' = TRUE
    /\ spc' = [spc EXCEPT ![c] = "base_stop"]
    /\ mpc' = mpc
    /\ parked_at_stop' = IF stop_requested THEN parked_at_stop ELSE AllParked
    /\ UNCHANGED <<ctorVars, lsnVars, poolVars, afd, aerrno, next_conn,
                   sjoin, popped, handled, closed, pushed_live, rdVars>>

\* lines 201-204: stop_requested.exchange(true)
StopExchange(c) ==
    /\ MayCallStop(c)
    /\ stop_requested' = TRUE
    /\ IF stop_requested
       THEN /\ spc' = [spc EXCEPT ![c] = "noop_returned"]
            /\ mpc' = MainAfterStop(c)
       ELSE /\ spc' = [spc EXCEPT ![c] = "base_stop"]
            /\ mpc' = mpc
    /\ parked_at_stop' = IF stop_requested THEN parked_at_stop ELSE AllParked
    /\ UNCHANGED <<ctorVars, lsnVars, poolVars, afd, aerrno, next_conn,
                   sjoin, popped, handled, closed, pushed_live, rdVars>>

\* BaseStop without the shutdown of the listening socket
BaseStop_NoShutdown(fd, ls) == ls

\* TCPServer::stop: shutdown(server_fd, SHUT_RD)
BaseStop(fd, ls) ==
    IF fd >= 0 /\ ls = "listening" THEN "shut_rd" ELSE ls

\* line 207
StopBase(c) ==
    /\ spc[c] = "base_stop"
    /\ lsock' = BaseStop(server_fd, lsock)
    /\ spc' = [spc EXCEPT ![c] = "notify_all"]
    /\ UNCHANGED <<ctorVars, server_fd, poolVars, stop_requested, mainVars,
                   sjoin, histVars, rdVars>>

\* line 211: condition.notify_all()
StopNotifyAll(c) ==
    /\ spc[c] = "notify_all"
    /\ wpc' = NotifyAll(wpc)
    /\ spc' = [spc EXCEPT ![c] = "join"]
    /\ sjoin' = [sjoin EXCEPT ![c] = 1]
    /\ UNCHANGED <<ctorVars, lsnVars, workers_size, wfd, wout, client_queue,
                   queue_mutex, stop_requested, mainVars, histVars, rdVars>>

\* a join that does not wait for the thread
JoinReturns_NoWait(w) == wpc[w] = wpc[w]

\* worker.join() returns once the worker thread has ended
JoinReturns(w) == wpc[w] = "exited"

\* lines 215-223: one iteration of the join loop (every thread in workers
\* is joinable: nothing else joins or detaches it), or workers.clear()
\* after the last one
StopJoin(c) ==
    /\ spc[c] = "join"
    /\ IF sjoin[c] <= workers_size
       THEN /\ JoinReturns(sjoin[c])
            /\ sjoin' = [sjoin EXCEPT ![c] = @ + 1]
            /\ UNCHANGED <<workers_size, spc>>
       ELSE /\ workers_size' = 0
            /\ spc' = [spc EXCEPT ![c] = "drain"]
            /\ UNCHANGED sjoin
    /\ UNCHANGED <<ctorVars, lsnVars, wpc, wfd, wout, client_queue, queue_mutex,
                   stop_requested, mainVars, histVars, rdVars>>

\* close_socket on every descriptor of q, in order, by `who`
RECURSIVE CloseAll(_, _, _)
CloseAll(q, cl, who) ==
    IF q = <<>> THEN cl
    ELSE CloseAll(Tail(q), [cl EXCEPT ![Head(q)] = Append(@, who)], who)

\* lines 226-234: under the mutex, pop and close what is left in the queue
StopDrain(c) ==
    /\ spc[c] = "drain"
    /\ queue_mutex = 0
    /\ closed' = CloseAll(client_queue, closed, CallerThread(c))
    /\ client_queue' = <<>>
    /\ spc' = [spc EXCEPT ![c] = "returned"]
    /\ mpc' = MainAfterStop(c)
    /\ UNCHANGED <<ctorVars, lsnVars, workers_size, wpc, wfd, wout, queue_mutex,
                   stop_requested, afd, aerrno, next_conn, sjoin, popped,
                   handled, pushed_live, parked_at_stop, rdVars>>

(***************************************************************************)
(* The server.                                                             *)
(***************************************************************************)
Init == InitServer

WorkerStep(w) ==
    \/ WorkerWait(w)
    \/ WorkerBlock(w)
    \/ WorkerCheck(w)
    \/ \E o \in HandlerOutcomes : WorkerHandle(w, o)
    \/ WorkerClose(w)

MainStep ==
    \/ Run
    \/ LoopTest
    \/ AcceptFailed
    \/ Push
    \/ Notify
    \/ AfterLoop

StopStep(c) ==
    \/ StopBase(c)
    \/ StopNotifyAll(c)
    \/ StopJoin(c)
    \/ StopDrain(c)

Next ==
    \/ \E fail \in StartSteps : Start(fail)
    \/ MainStep
    \/ AcceptOk
    \/ \E e \in Errnos : AcceptErr(e)
    \/ \E w \in Workers : WorkerStep(w)
    \/ \E w \in Workers : SpuriousWake(w)
    \/ \E c \in Callers : StopExchange(c)
    \/ \E c \in Callers : StopStep(c)

Spec == Init /\ [][Next]_vars

(***************************************************************************)
(* The server under the scheduling the threads can rely on: a thread that  *)
(* can take a step eventually takes it, and accept() on a socket that has  *)
(* been shut down returns.  Nothing makes a client connect, a transient    *)
(* accept error happen, a caller call stop(), or a wake-up be spurious.    *)
(***************************************************************************)
Fairness ==
    /\ \A w \in 1..MaxThreadsArg : WF_vars(w \in Workers /\ WorkerStep(w))
    /\ WF_vars(MainStep)
    /\ WF_vars(AcceptErr("EINVAL"))
    /\ \A c \in Callers : WF_vars(StopStep(c))

FairSpec == Init /\ [][Next]_vars /\ Fairness

(***************************************************************************)
(* The server started again.  start() may be called on a server whose      *)
(* run() has returned and whose stop() calls have all returned: the        *)
(* workers vector is empty again, TCPServer::start returns early because   *)
(* server_fd still holds the descriptor that stop() shut down, the flag is *)
(* reset and new workers are spawned; run() is then called as before.      *)
(***************************************************************************)
Restart(fail) ==
    /\ mpc = "returned"
    /\ \A c \in Callers : spc[c] \in {"idle", "returned", "noop_returned"}
    /\ StartBody(fail)

NextRestart == Next \/ \E fail \in StartSteps : Restart(fail)

SpecRestart == Init /\ [][NextRestart]_vars

(***************************************************************************)
(* The constructor alone.                                                  *)
(***************************************************************************)
SpecCtor == InitCtor /\ [][Construct]_vars


(***************************************************************************)
(* HttpReader over a socket.  The peer's byte stream arrives in segments:  *)
(* sock.segs are the segments still to arrive, and one read() returns at   *)
(* most one segment, cut to the size asked for.  After the last segment    *)
(* read() returns 0 (end of stream), or -1 when sock.err is set.           *)
(***************************************************************************)
CR == "CR"
LF == "LF"
Bytes == {CR, LF, "x"}
Delims == {<<CR, LF>>, <<CR, LF, CR, LF>>}

Min(a, b) == IF a <= b THEN a ELSE b

RECURSIVE Flatten(_)
Flatten(ss) == IF ss = <<>> THEN <<>> ELSE Head(ss) \o Flatten(Tail(ss))

\* s cut into segments after the positions in cuts
RECURSIVE SplitAt(_, _)
SplitAt(s, cuts) ==
    IF s = <<>> THEN <<>>
    ELSE LET k == CHOOSE c \in cuts \cup {Len(s)} :
                     \A e \in cuts \cup {Len(s)} : c <= e
         IN  <<SubSeq(s, 1, k)>>
                 \o SplitAt(SubSeq(s, k + 1, Len(s)),
                            {c - k : c \in {e \in cuts : e > k}})

Streams == UNION {[1..l -> Bytes] : l \in 0..MaxStream}
Segmentations(s) == {SplitAt(s, cuts) : cuts \in SUBSET (1..(Len(s) - 1))}

\* HttpReader::HttpReader: buffer_(buf_size) is zero-filled.  `buffer` holds
\* the part of buffer_ that read() has written so far; the bytes after it
\* are still zero and no call looks at them, every access staying below
\* bufflen_.
NewReader(buf_size) ==
    [cap |-> buf_size, buffer |-> <<>>, bufflen |-> 0, pos |-> 0]

\* read(fd_, buffer_.data(), count)
SockRead(sk, count) ==
    IF sk.segs = <<>>
    THEN [n |-> IF sk.err THEN -1 ELSE 0, bytes |-> <<>>, sock |-> sk]
    ELSE LET h == Head(sk.segs)
             k == Min(count, Len(h))
             rest == IF k = Len(h) THEN Tail(sk.segs)
                     ELSE <<SubSeq(h, k + 1, Len(h))>> \o Tail(sk.segs)
         IN  [n |-> k, bytes |-> SubSeq(h, 1, k),
              sock |-> [sk EXCEPT !.segs = rest]]

\* refill_buffer without `pos_ = 0`
refill_buffer_KeepPos(r, sk) ==
    LET got == SockRead(sk, r.cap)
    IN  IF got.n < 0
        THEN [rd |-> r, sock |-> got.sock, threw |-> TRUE]
        ELSE [rd |-> [r EXCEPT !.bufflen = got.n,
                               !.buffer = got.bytes \o
                                   SubSeq(r.buffer, got.n + 1, Len(r.buffer))],
              sock |-> got.sock, threw |-> FALSE]

\* HttpReader::refill_buffer
refill_buffer(r, sk) ==
    LET got == SockRead(sk, r.cap)
        r0 == [r EXCEPT !.pos = 0]
    IN  IF got.n < 0
        THEN [rd |-> r0, sock |-> got.sock, threw |-> TRUE]
        ELSE [rd |-> [r0 EXCEPT !.bufflen = got.n,
                                !.buffer = got.bytes \o
                                    SubSeq(r.buffer, got.n + 1, Len(r.buffer))],
              sock |-> got.sock, threw |-> FALSE]

\* std::search over buffer_[from+1 .. from+remaining]: the index (from 1) in
\* the buffer of the first occurrence of delim, 0 when there is none
Search(buf, from, remaining, delim) ==
    LET hits == {i \in (from + 1)..(from + remaining - Len(delim) + 1) :
                    SubSeq(buf, i, i + Len(delim) - 1) = delim}
    IN  IF hits = {} THEN 0
        ELSE CHOOSE i \in hits : \A j \in hits : i <= j

\* the result of a reader call
Ret(out, data, r, sk) == [out |-> out, data |-> data, rd |-> r, sock |-> sk]

\* HttpReader::read_until, from the top of its loop with `result` so far.
\* "ub": bufflen_ - pos_ wrapped around and the scan left the buffer.
RECURSIVE read_until_loop(_, _, _, _)
read_until_loop(r, sk, delim, result) ==
    LET f == IF r.pos >= r.cap THEN refill_buffer(r, sk)
             ELSE [rd |-> r, sock |-> sk, threw |-> FALSE]
        refilled == r.pos >= r.cap
        r1 == f.rd
    IN  IF f.threw THEN Ret("read_error", <<>>, r1, f.sock)
        ELSE IF refilled /\ r1.bufflen = 0 THEN Ret("ok", result, r1, f.sock)
        ELSE IF r1.pos > r1.bufflen THEN Ret("ub", <<>>, r1, f.sock)
        ELSE LET remaining == r1.bufflen - r1.pos
                 it == Search(r1.buffer, r1.pos, remaining, delim)
             IN  IF it # 0
                 THEN LET len == (it - 1 - r1.pos) + Len(delim)
                      IN  Ret("ok",
                              result \o SubSeq(r1.buffer, r1.pos + 1, r1.pos + len),
                              [r1 EXCEPT !.pos = r1.pos + len], f.sock)
                 ELSE read_until_loop([r1 EXCEPT !.pos = r1.cap], f.sock, delim,
                          result \o SubSeq(r1.buffer, r1.pos + 1, r1.bufflen))

read_until(r, sk, delim) == read_until_loop(r, sk, delim, <<>>)

\* HttpReader::read_fixed, from the top of its loop with `result` so far.
\* "hang": an iteration that neither refills nor copies leaves the reader
\* as it was, so the loop runs forever without reading the socket.
RECURSIVE read_fixed_loop(_, _, _, _)
read_fixed_loop(r, sk, length, result) ==
    IF ~(Len(result) < length)
    THEN Ret(IF Len(result) # length THEN "short_read" ELSE "ok", result, r, sk)
    ELSE
    LET f == IF r.pos >= r.cap THEN refill_buffer(r, sk)
             ELSE [rd |-> r, sock |-> sk, threw |-> FALSE]
        refilled == r.pos >= r.cap
        r1 == f.rd
    IN  IF f.threw THEN Ret("read_error", <<>>, r1, f.sock)
        ELSE IF refilled /\ r1.bufflen = 0
        THEN Ret(IF Len(result) # length THEN "short_read" ELSE "ok",
                 IF Len(result) # length THEN <<>> ELSE result, r1, f.sock)
        ELSE IF r1.pos > r1.bufflen THEN Ret("ub", <<>>, r1, f.sock)
        ELSE LET remaining == r1.bufflen - r1.pos
                 needed == length - Len(result)
                 to_copy == Min(remaining, needed)
             IN  IF to_copy = 0 /\ ~refilled
                 THEN Ret("hang", <<>>, r1, f.sock)
                 ELSE read_fixed_loop([r1 EXCEPT !.pos = r1.pos + to_copy],
                          f.sock, length,
                          result \o SubSeq(r1.buffer, r1.pos + 1, r1.pos + to_copy))

\* read_fixed leaving the reader's position where it was
read_fixed_NoAdvance(r, sk, length) ==
    LET f == read_fixed_loop(r, sk, length, <<>>)
    IN  [f EXCEPT !.rd = [f.rd EXCEPT !.pos = IF f.out = "ok" /\ f.rd.pos > 0
                                              THEN f.rd.pos - 1 ELSE f.rd.pos]]

read_fixed(r, sk, length) == read_fixed_loop(r, sk, length, <<>>)

\* the bytes not yet returned to the caller, in stream order: the unread
\* part of the buffer, then what the socket has still to deliver
Unread(r, sk) == SubSeq(r.buffer, r.pos + 1, r.bufflen) \o Flatten(sk.segs)

(***************************************************************************)
(* One reader, driven by successive calls.                                 *)
(***************************************************************************)
InitReader ==
    /\ Fields(0, "unconstructed")
    /\ \E buf_size \in 1..MaxBuf : rd = NewReader(buf_size)
    /\ \E s \in Streams : \E segs \in Segmentations(s) : \E e \in BOOLEAN :
          sock = [segs |-> segs, err |-> e]
    /\ rcall = <<>>
    /\ hcall = <<>>

\* the caller can make another call: the last one returned
MayCall ==
    /\ Len(rcall) < MaxCalls
    /\ rcall # <<>> => rcall[Len(rcall)].out = "ok"

Called(op, arg, ret) ==
    /\ rd' = ret.rd
    /\ sock' = ret.sock
    /\ rcall' = Append(rcall, [op |-> op, arg |-> arg, out |-> ret.out,
                               data |-> ret.data, before |-> Unread(rd, sock)])
    /\ UNCHANGED <<srvVars, hcall>>

CallReadUntil(delim) ==
    /\ MayCall
    /\ Called("read_until", delim, read_until(rd, sock, delim))

CallReadFixed(length) ==
    /\ MayCall
    /\ Called("read_fixed", length, read_fixed(rd, sock, length))

NextReader ==
    \/ \E delim \in Delims : CallReadUntil(delim)
    \/ \E length \in 0..MaxFixed : CallReadFixed(length)

SpecReader == InitReader /\ [][NextReader]_vars

(***************************************************************************)
(* Strings of bytes, as the parser handles them (http_reader.hpp,          *)
(* HttpMessage).  A std::string is a sequence of one-character strings;    *)
(* positions are counted from 0 as in the code and npos is -1.             *)
(***************************************************************************)
SP == " "
HT == "HT"
CRLF == <<CR, LF>>
CRLFCRLF == <<CR, LF, CR, LF>>
npos == -1

\* std::string::substr(pos, n) and substr(pos)
Substr(s, pos, n) == SubSeq(s, pos + 1, Min(pos + n, Len(s)))
SubstrFrom(s, pos) == SubSeq(s, pos + 1, Len(s))

\* std::string::find(pat, from)
Find(s, pat, from) ==
    LET hits == {i \in from..(Len(s) - Len(pat)) : Substr(s, i, Len(pat)) = pat}
    IN  IF hits = {} THEN npos ELSE CHOOSE i \in hits : \A j \in hits : i <= j

\* std::tolower in the "C" locale
LowerOf ==
     "A" :> "a" @@ "B" :> "b" @@ "C" :> "c" @@ "D" :> "d" @@ "E" :> "e" @@ "F" :> "f" @@
     "G" :> "g" @@ "H" :> "h" @@ "I" :> "i" @@ "J" :> "j" @@ "K" :> "k" @@ "L" :> "l" @@
     "M" :> "m" @@ "N" :> "n" @@ "O" :> "o" @@ "P" :> "p" @@ "Q" :> "q" @@ "R" :> "r" @@
     "S" :> "s" @@ "T" :> "t" @@ "U" :> "u" @@ "V" :> "v" @@ "W" :> "w" @@ "X" :> "x" @@
     "Y" :> "y" @@ "Z" :> "z"

tolower(c) == IF c \in DOMAIN LowerOf THEN LowerOf[c] ELSE c

\* find_last_not_of(" \t") and find_first_not_of(" \t")
find_last_not_of(s) ==
    LET keep == {i \in 0..(Len(s) - 1) : s[i + 1] \notin {SP, HT}}
    IN  IF keep = {} THEN npos ELSE CHOOSE i \in keep : \A j \in keep : j <= i

find_first_not_of(s) ==
    LET keep == {i \in 0..(Len(s) - 1) : s[i + 1] \notin {SP, HT}}
    IN  IF keep = {} THEN npos ELSE CHOOSE i \in keep : \A j \in keep : i <= j

\* the value of a digit character
DigitOf ==
     "0" :> 0 @@ "1" :> 1 @@ "2" :> 2 @@ "3" :> 3 @@ "4" :> 4 @@ "5" :> 5 @@
     "6" :> 6 @@ "7" :> 7 @@ "8" :> 8 @@ "9" :> 9 @@ "a" :> 10 @@ "b" :> 11 @@
     "c" :> 12 @@ "d" :> 13 @@ "e" :> 14 @@ "f" :> 15 @@ "A" :> 10 @@ "B" :> 11 @@
     "C" :> 12 @@ "D" :> 13 @@ "E" :> 14 @@ "F" :> 15

IsDigit(c, base) == c \in DOMAIN DigitOf /\ DigitOf[c] < base

\* the characters strtoul skips before the number (isspace)
IsSpace(c) == c \in {SP, HT, CR, LF}

\* strtoul returns a negated value modulo 2^64, which does not fit the
\* integers of the model: it is kept above every length a stream can have
ULongWrap == 1000000

RECURSIVE SkipSpace(_)
SkipSpace(s) == IF s # <<>> /\ IsSpace(Head(s)) THEN SkipSpace(Tail(s)) ELSE s

\* the value of the longest prefix of s made of digits of the base, and the
\* number of digits in it
RECURSIVE Digits(_, _, _, _)
Digits(s, base, val, n) ==
    IF s # <<>> /\ IsDigit(Head(s), base)
    THEN Digits(Tail(s), base, val * base + DigitOf[Head(s)], n + 1)
    ELSE [val |-> val, n |-> n]

\* std::stoul(s, nullptr, base): white space, an optional sign, for base 16
\* an optional 0x, then digits; what follows the digits is ignored.  Without
\* a digit it throws std::invalid_argument.
stoul(s, base) ==
    LET s1 == SkipSpace(s)
        neg == s1 # <<>> /\ Head(s1) = "-"
        s2 == IF s1 # <<>> /\ Head(s1) \in {"+", "-"} THEN Tail(s1) ELSE s1
        s3 == IF /\ base = 16
                 /\ Len(s2) >= 3
                 /\ s2[1] = "0"
                 /\ s2[2] \in {"x", "X"}
                 /\ IsDigit(s2[3], 16)
              THEN SubstrFrom(s2, 2) ELSE s2
        d == Digits(s3, base, 0, 0)
    IN  IF d.n = 0 THEN [threw |-> TRUE, val |-> 0]
        ELSE [threw |-> FALSE,
              val |-> IF neg /\ d.val > 0 THEN ULongWrap - d.val ELSE d.val]

\* std::to_string of a size
RECURSIVE to_string(_)
to_string(n) ==
    LET digit == <<"0", "1", "2", "3", "4", "5", "6", "7", "8", "9">>
    IN  IF n < 10 THEN <<digit[n + 1]>>
        ELSE to_string(n \div 10) \o <<digit[(n % 10) + 1]>>

(***************************************************************************)
(* HttpReader::read_chunked                                                *)
(***************************************************************************)
\* From the top of its loop with `body` so far.  "length_error":
\* line.resize(line.size() - 2) on a line shorter than two bytes asks for a
\* size near 2^64 and std::string::resize throws std::length_error.
RECURSIVE read_chunked_loop(_, _, _)

\* after the CRLF that follows a chunk's data has been read (result t)
chunk_end_read(t, body) ==
    IF t.out # "ok" THEN Ret(t.out, <<>>, t.rd, t.sock)
    ELSE read_chunked_loop(t.rd, t.sock, body)

\* after the chunk's data has been read (result chunk)
chunk_data_read(chunk, body) ==
    IF chunk.out # "ok" THEN Ret(chunk.out, <<>>, chunk.rd, chunk.sock)
    ELSE chunk_end_read(read_until(chunk.rd, chunk.sock, CRLF),
                        body \o chunk.data)

\* after the final CRLF that follows the zero-size chunk has been read
last_line_read(t, body) ==
    IF t.out # "ok" THEN Ret(t.out, <<>>, t.rd, t.sock)
    ELSE Ret("ok", body, t.rd, t.sock)

\* after std::stoul(line, nullptr, 16) on the size line
chunk_size_parsed(l, chunk_size, body) ==
    IF chunk_size.threw THEN Ret("invalid_chunk_size", <<>>, l.rd, l.sock)
    ELSE IF chunk_size.val = 0
    THEN last_line_read(read_until(l.rd, l.sock, CRLF), body)
    ELSE chunk_data_read(read_fixed(l.rd, l.sock, chunk_size.val), body)

\* after the size line has been read (result l)
size_line_read(l, body) ==
    IF l.out # "ok" THEN Ret(l.out, <<>>, l.rd, l.sock)
    ELSE IF Len(l.data) < 2 THEN Ret("length_error", <<>>, l.rd, l.sock)
    ELSE chunk_size_parsed(l, stoul(SubSeq(l.data, 1, Len(l.data) - 2), 16),
                           body)

read_chunked_loop(r, sk, body) == size_line_read(read_until(r, sk, CRLF), body)

read_chunked(r, sk) == read_chunked_loop(r, sk, <<>>)

(***************************************************************************)
(* HttpMessage (the second half of http_reader.hpp)                        *)
(***************************************************************************)
DEFAULT_BUFSIZE == 16 * 1024

\* std::map<std::string, std::string>
EmptyMap == [k \in {} |-> <<>>]
MapPut(m, k, v) == [x \in DOMAIN m \cup {k} |-> IF x = k THEN v ELSE m[x]]
MapCount(m, k) == IF k \in DOMAIN m THEN 1 ELSE 0

EmptyMessage == [start_line |-> <<>>, headers |-> EmptyMap, body |-> <<>>]

\* parse_start_line without the test for a missing CRLF
parse_start_line_NoCheck(data, msg) ==
    [threw |-> FALSE,
     msg |-> [msg EXCEPT !.start_line = Substr(data, 0, Find(data, CRLF, 0))]]

\* HttpMessage::parse_start_line
parse_start_line(data, msg) ==
    LET end == Find(data, CRLF, 0)
    IN  IF end = npos THEN [threw |-> TRUE, msg |-> msg]
        ELSE [threw |-> FALSE,
              msg |-> [msg EXCEPT !.start_line = Substr(data, 0, end)]]

\* HttpMessage::parse_headers, from the top of its loop.  "hang": on a line
\* without a colon the loop continues without moving `start`, so the same
\* line is examined again for ever.
RECURSIVE parse_headers_loop(_, _, _)
parse_headers_loop(data, start, msg) ==
    IF ~(start < Len(data)) THEN [out |-> "ok", msg |-> msg]
    ELSE
    LET end == Find(data, CRLF, start) IN
    IF end = npos THEN [out |-> "ok", msg |-> msg]
    ELSE
    LET line == Substr(data, start, end - start) IN
    IF line = <<>> THEN [out |-> "ok", msg |-> msg]
    ELSE
    LET colon == Find(line, <<":">>, 0) IN
    IF colon = npos THEN [out |-> "hang", msg |-> msg]
    ELSE
    LET key0 == Substr(line, 0, colon)
        value0 == SubstrFrom(line, colon + 1)
        key1 == [i \in 1..Len(key0) |-> tolower(key0[i])]
        key == Substr(key1, 0, find_last_not_of(key1) + 1)
        first == find_first_not_of(value0)
        value == IF first = npos THEN <<>> ELSE SubstrFrom(value0, first)
    IN  parse_headers_loop(data, end + 2,
            [msg EXCEPT !.headers = MapPut(@, key, value)])

parse_headers(data, msg) == parse_headers_loop(data, Find(data, CRLF, 0) + 2, msg)

TransferEncoding ==
    <<"t", "r", "a", "n", "s", "f", "e", "r", "-",
      "e", "n", "c", "o", "d", "i", "n", "g">>
ContentLength ==
    <<"c", "o", "n", "t", "e", "n", "t", "-", "l", "e", "n", "g", "t", "h">>
Chunked == <<"c", "h", "u", "n", "k", "e", "d">>

\* the result of HttpMessage::parse: how it ended, the message (as far as it
\* was built when the parse did not end "ok": the caller gets none then), the
\* body strategy taken ("unset" when the parse did not get that far) and the
\* socket
ParseRet(out, framing, msg, sk) ==
    [out |-> out, framing |-> framing, msg |-> msg, sock |-> sk]

\* HttpMessage::parse: after the body has been read (result
\* b) by the strategy `framing`
body_read(framing, msg, b) ==
    IF b.out # "ok" THEN ParseRet(b.out, framing, msg, b.sock)
    ELSE ParseRet("ok", framing, [msg EXCEPT !.body = b.data], b.sock)

\* after std::stoul on the content-length value (result len)
length_parsed(h, msg, len) ==
    IF len.threw THEN ParseRet("invalid_argument", "fixed", msg, h.sock)
    ELSE body_read("fixed", msg, read_fixed(h.rd, h.sock, len.val))

\* after parse_headers (result p): the choice of the body strategy
headers_parsed(h, p) ==
    IF p.out # "ok" THEN ParseRet(p.out, "unset", p.msg, h.sock)
    ELSE IF MapCount(p.msg.headers, TransferEncoding) # 0
    THEN IF p.msg.headers[TransferEncoding] = Chunked
         THEN body_read("chunked", p.msg, read_chunked(h.rd, h.sock))
         ELSE ParseRet("ok", "none", p.msg, h.sock)
    ELSE IF MapCount(p.msg.headers, ContentLength) # 0
    THEN length_parsed(h, p.msg, stoul(p.msg.headers[ContentLength], 10))
    ELSE ParseRet("ok", "none", p.msg, h.sock)

\* after parse_start_line (result s)
start_line_parsed(h, s) ==
    IF s.threw THEN ParseRet("invalid_http_format", "unset", EmptyMessage, h.sock)
    ELSE headers_parsed(h, parse_headers(h.data, s.msg))

\* after the header block has been read (result h)
header_block_read(h) ==
    IF h.out # "ok" THEN ParseRet(h.out, "unset", EmptyMessage, h.sock)
    ELSE start_line_parsed(h, parse_start_line(h.data, EmptyMessage))

\* HttpMessage::parse
parse(sk) ==
    header_block_read(read_until(NewReader(DEFAULT_BUFSIZE), sk, CRLFCRLF))

(***************************************************************************)
(* TCPServer::send_all and TCPServer::handle_connection (tcp.hpp).  The    *)
(* socket of a connection carries, besides what it will deliver to read(), *)
(* the results of the coming send() calls in `wr` (a positive number: at   *)
(* most that many bytes are accepted; 0; -1 for an error; when `wr` is     *)
(* used up every send accepts all it is given) and in `out` the bytes the  *)
(* peer has been sent.                                                     *)
(***************************************************************************)
RECURSIVE send_all_loop(_, _, _)
send_all_loop(sk, data, total_sent) ==
    IF ~(total_sent < Len(data)) THEN [ok |-> TRUE, sock |-> sk]
    ELSE
    LET left == Len(data) - total_sent
        sent == IF sk.wr = <<>> THEN left
                ELSE IF Head(sk.wr) <= 0 THEN Head(sk.wr)
                ELSE Min(Head(sk.wr), left)
        sk1 == [sk EXCEPT !.wr = IF sk.wr = <<>> THEN <<>> ELSE Tail(sk.wr)]
    IN  IF sent = -1 THEN [ok |-> FALSE, sock |-> sk1]
        ELSE IF sent = 0 THEN [ok |-> FALSE, sock |-> sk1]
        ELSE send_all_loop(
                 [sk1 EXCEPT !.out = @ \o SubSeq(data, total_sent + 1,
                                                 total_sent + sent)],
                 data, total_sent + sent)

\* send_all reporting success whatever the send() calls returned
send_all_AlwaysTrue(sk, data) ==
    [send_all_loop(sk, data, 0) EXCEPT !.ok = TRUE]

send_all(sk, data) == send_all_loop(sk, data, 0)

StatusOk ==
    <<"H", "T", "T", "P", "/", "1", ".", "1", SP, "2", "0", "0", SP, "O",
      "K", CR, LF>>
HdrContentType ==
    <<"C", "o", "n", "t", "e", "n", "t", "-", "T", "y", "p", "e", ":", SP,
      "t", "e", "x", "t", "/", "p", "l", "a", "i", "n", CR, LF>>
HdrContentLength ==
    <<"C", "o", "n", "t", "e", "n", "t", "-", "L", "e", "n", "g", "t", "h",
      ":", SP>>
HdrConnectionClose ==
    <<"C", "o", "n", "n", "e", "c", "t", "i", "o", "n", ":", SP, "c", "l",
      "o", "s", "e", CR, LF, CR, LF>>
error_response ==
    <<"H", "T", "T", "P", "/", "1", ".", "1", SP, "5", "0", "0", SP, "I",
      "n", "t", "e", "r", "n", "a", "l", SP, "S", "e", "r", "v", "e", "r",
      SP, "E", "r", "r", "o", "r", CR, LF, "C", "o", "n", "t", "e", "n",
      "t", "-", "L", "e", "n", "g", "t", "h", ":", SP, "0", CR, LF, "C",
      "o", "n", "n", "e", "c", "t", "i", "o", "n", ":", SP, "c", "l", "o",
      "s", "e", CR, LF, CR, LF>>

\* lines 66-70: the headers of the success response
ResponseHeaders(body) ==
    StatusOk \o HdrContentType \o HdrContentLength \o to_string(Len(body))
        \o CRLF \o HdrConnectionClose

\* the exceptions HttpMessage::parse can end with; all derive from
\* std::exception
ParseErrors ==
    {"read_error", "short_read", "invalid_chunk_size", "length_error",
     "invalid_argument", "invalid_http_format"}

\* the result of a handle_connection call: how it ended, what the parse did
\* and the socket afterwards
HandlerRet(out, p, sk) ==
    [out |-> out, parse |-> p.out, framing |-> p.framing, msg |-> p.msg,
     sock |-> sk]

\* after the body of the success response has been sent (result b)
body_sent(p, b) ==
    HandlerRet(IF b.ok THEN "responded" ELSE "send_failed", p, b.sock)

\* headers_sent with a failed send ending in the catch block
headers_sent_ErrorOnFail(p, h) ==
    IF ~h.ok
    THEN LET e == send_all(h.sock, error_response)
         IN  HandlerRet(IF e.ok THEN "error_responded"
                        ELSE "error_send_failed", p, e.sock)
    ELSE body_sent(p, send_all(h.sock, p.msg.body))

\* after the headers of the success response have been sent (result h)
headers_sent(p, h) ==
    IF ~h.ok THEN HandlerRet("send_failed", p, h.sock)
    ELSE body_sent(p, send_all(h.sock, p.msg.body))

\* the catch block, after error_response has been sent (result e)
error_sent(p, e) ==
    HandlerRet(IF e.ok THEN "error_responded" ELSE "error_send_failed",
               p, e.sock)

\* after HttpMessage::parse (result p)
request_parsed(p) ==
    IF p.out = "ok"
    THEN headers_sent(p, send_all(p.sock, ResponseHeaders(p.msg.body)))
    ELSE IF p.out \in ParseErrors
    THEN error_sent(p, send_all(p.sock, error_response))
    ELSE HandlerRet(p.out, p, p.sock)

\* TCPServer::handle_connection.  A parse that never returns ("hang") or
\* leaves defined behaviour ("ub") is the handler's outcome too.
handle_connection(sk) == request_parsed(parse(sk))

(***************************************************************************)
(* One connection, handled once: handle_connection on a socket that        *)
(* delivers a request and then ends.  The requests are built from a start  *)
(* line, up to MaxHeaderLines header lines and a body, with up to MaxTrunc *)
(* bytes missing at the end; the socket delivers them in one segment or in *)
(* two, cut within the last MaxTail bytes, and then reports end of stream  *)
(* or an error.                                                            *)
(***************************************************************************)
MaxHeaderLines == 2
MaxTrunc == 2
MaxTail == 6

StartLine ==
    <<"G", "E", "T", SP, "/", SP, "H", "T", "T", "P", "/", "1", ".", "1">>
LineChunked ==
    <<"T", "r", "a", "n", "s", "f", "e", "r", "-", "E", "n", "c", "o", "d",
      "i", "n", "g", ":", SP, "c", "h", "u", "n", "k", "e", "d">>
LineGzip ==
    <<"T", "r", "a", "n", "s", "f", "e", "r", "-", "E", "n", "c", "o", "d",
      "i", "n", "g", ":", SP, "g", "z", "i", "p">>
LineLength2 ==
    <<"C", "o", "n", "t", "e", "n", "t", "-", "L", "e", "n", "g", "t", "h",
      ":", SP, "2">>
LineNoColon ==
    <<"X", "-", "N", "o", "t", "e">>
BodyAb ==
    <<"a", "b">>
BodyChunkedAb ==
    <<"2", CR, LF, "a", "b", CR, LF, "0", CR, LF, CR, LF>>
BodyBadChunk ==
    <<"z", "z", CR, LF>>

HeaderLines == {LineChunked, LineGzip, LineLength2, LineNoColon}
Bodies == {<<>>, BodyAb, BodyChunkedAb, BodyBadChunk}

\* up to MaxHeaderLines different header lines, in any order
LineChoices(n) ==
    {ls \in [1..n -> HeaderLines] : \A i, j \in 1..n : ls[i] = ls[j] => i = j}

HeaderBlocks ==
    UNION {{Flatten([i \in 1..n |-> ls[i] \o CRLF]) : ls \in LineChoices(n)} :
              n \in 0..MaxHeaderLines}

\* what a peer sends that never completes a start line, and a request whose
\* start line is empty
BareRequests == {<<>>, StartLine, StartLine \o <<CR>>, CRLF \o CRLF}

Requests ==
    {StartLine \o CRLF \o hb \o CRLF \o b : hb \in HeaderBlocks, b \in Bodies}
        \cup BareRequests

Truncations(s) == {SubSeq(s, 1, Len(s) - k) : k \in 0..Min(MaxTrunc, Len(s))}

\* s delivered whole or in two segments, the second one of up to MaxTail
\* bytes
Arrivals(s) ==
    {SplitAt(s, {})}
        \cup {SplitAt(s, {Len(s) - t}) : t \in 1..Min(MaxTail, Len(s) - 1)}

\* what the coming send() calls return
WriteSchedules == {<<>>, <<-1>>, <<7, 0>>}

InitHandler ==
    /\ Fields(0, "unconstructed")
    /\ rd = <<>>
    /\ rcall = <<>>
    /\ hcall = <<>>
    /\ \E req \in Requests : \E s \in Truncations(req) :
       \E segs \in Arrivals(s) : \E e \in BOOLEAN : \E wr \in WriteSchedules :
          sock = [segs |-> segs, err |-> e, wr |-> wr, out |-> <<>>]

\* the worker's call of handle_connection on the connection
HandleConnection ==
    /\ hcall = <<>>
    /\ LET h == handle_connection(sock)
       IN  /\ hcall' = <<[ret |-> h, before |-> sock]>>
           /\ sock' = h.sock
    /\ UNCHANGED <<srvVars, rd, rcall>>

SpecHandler == InitHandler /\ [][HandleConnection]_vars

(***************************************************************************)
(* One reader decoding one chunked body: read_chunked on a socket that     *)
(* delivers the chunked encoding of a body of up to MaxBody bytes, cut     *)
(* into segments at up to MaxCuts places, and then the end of the stream.  *)
(* The reader's buffer is small (1..MaxBuf bytes) or has the default size. *)
(***************************************************************************)
MaxBody == 2
MaxCuts == 2

\* a chunk size in hexadecimal, as a sender writes it
RECURSIVE to_hex(_)
to_hex(n) ==
    LET digit == <<"0", "1", "2", "3", "4", "5", "6", "7", "8", "9",
                   "a", "b", "c", "d", "e", "f">>
    IN  IF n < 16 THEN <<digit[n + 1]>>
        ELSE to_hex(n \div 16) \o <<digit[(n % 16) + 1]>>

\* the chunked encoding of a body given as its chunks: for each chunk its
\* size, CRLF, its bytes, CRLF; then a zero size, CRLF and the final CRLF
Encode(chunks) ==
    Flatten([i \in 1..Len(chunks) |->
                 to_hex(Len(chunks[i])) \o CRLF \o chunks[i] \o CRLF])
        \o <<"0">> \o CRLF \o CRLF

ChunkedBodies == UNION {[1..l -> Bytes] : l \in 0..MaxBody}

\* the ways of cutting a body into non-empty chunks
Chunkings(body) == Segmentations(body)

\* the sets of up to k places at which a stream of n bytes can be cut
RECURSIVE CutSets(_, _)
CutSets(n, k) ==
    IF k = 0 THEN {{}}
    ELSE CutSets(n, k - 1)
             \cup {cs \cup {c} : cs \in CutSets(n, k - 1), c \in 1..(n - 1)}

FewCuts(s) == {SplitAt(s, cuts) : cuts \in CutSets(Len(s), MaxCuts)}

InitChunked ==
    /\ Fields(0, "unconstructed")
    /\ \E buf_size \in (1..MaxBuf) \cup {DEFAULT_BUFSIZE} :
          rd = NewReader(buf_size)
    /\ \E body \in ChunkedBodies : \E chunks \in Chunkings(body) :
       \E segs \in FewCuts(Encode(chunks)) :
          sock = [segs |-> segs, err |-> FALSE]
    /\ rcall = <<>>
    /\ hcall = <<>>

\* read_chunked called on the stream that encodes `body`
CallReadChunked(body) ==
    /\ rcall = <<>>
    /\ \E chunks \in Chunkings(body) : Unread(rd, sock) = Encode(chunks)
    /\ Called("read_chunked", body, read_chunked(rd, sock))

NextChunked == \E body \in ChunkedBodies : CallReadChunked(body)

SpecChunked == InitChunked /\ [][NextChunked]_vars

(***************************************************************************)
(* parse_headers alone, on a header block of one header line: the start   *)
(* line, then a key and a value, each with up to MaxPad spaces or tabs     *)
(* before and after it, separated by a colon, then the blank line.  The    *)
(* block is what the socket delivered; the call is recorded in rcall.      *)
(***************************************************************************)
MaxPad == 2

Pads == UNION {[1..l -> {SP, HT}] : l \in 0..MaxPad}
HeaderKeys == {<<"A", "b">>, <<"X", "-", "y">>}
HeaderValues == {<<"5">>, <<"a", SP, "b">>}

HeaderLine(kl, key, kr, vl, value, vr) ==
    kl \o key \o kr \o <<":">> \o vl \o value \o vr

InitHeaders ==
    /\ Fields(0, "unconstructed")
    /\ rd = <<>>
    /\ rcall = <<>>
    /\ hcall = <<>>
    /\ \E key \in HeaderKeys : \E value \in HeaderValues :
       \E kl \in Pads : \E kr \in Pads : \E vl \in Pads : \E vr \in Pads :
          sock = [segs |-> <<StartLine \o CRLF
                                 \o HeaderLine(kl, key, kr, vl, value, vr)
                                 \o CRLFCRLF>>,
                  err |-> FALSE]

\* HttpMessage::parse, line 136: parse_headers on the header block read
CallParseHeaders ==
    /\ rcall = <<>>
    /\ LET data == Flatten(sock.segs)
           p == parse_headers(data, EmptyMessage)
       IN  rcall' = <<[op |-> "parse_headers", arg |-> data, out |-> p.out,
                       data |-> p.msg.headers, before |-> data]>>
    /\ UNCHANGED <<srvVars, rd, sock, hcall>>

SpecHeaders == InitHeaders /\ [][CallParseHeaders]_vars

(***************************************************************************)
(* read_chunked on a stream that begins with an arbitrary chunk-size line: *)
(* up to MaxSizeLine characters, either ended by CRLF and followed by one  *)
(* byte of chunk data and the end of the body, or cut short by the end of  *)
(* the stream.                                                             *)
(***************************************************************************)
MaxSizeLine == 2

SizeChars == {"1", "a", "g", "-", SP}
SizeLines == UNION {[1..l -> SizeChars] : l \in 0..MaxSizeLine}
\* what follows a size line that is complete
ChunkTail == <<"x">> \o CRLF \o <<"0">> \o CRLF \o CRLF

InitSizeLine ==
    /\ Fields(0, "unconstructed")
    /\ \E buf_size \in (1..MaxBuf) \cup {DEFAULT_BUFSIZE} :
          rd = NewReader(buf_size)
    /\ \E line \in SizeLines : \E complete \in BOOLEAN :
          sock = [segs |-> IF complete THEN <<line \o CRLF \o ChunkTail>>
                           ELSE IF line = <<>> THEN <<>> ELSE <<line>>,
                  err |-> FALSE]
    /\ rcall = <<>>
    /\ hcall = <<>>

\* read_chunked called on the stream
CallReadChunkedLine ==
    /\ rcall = <<>>
    /\ Called("read_chunked", Unread(rd, sock), read_chunked(rd, sock))

SpecSizeLine == InitSizeLine /\ [][CallReadChunkedLine]_vars

(***************************************************************************)
(* send_all alone: up to MaxData bytes to send on a socket whose next      *)
(* send() calls, up to MaxSends of them, accept some of the bytes, accept  *)
(* none, or fail.  The call is recorded in rcall: `before` is the schedule *)
(* of send() results it met, `data` the bytes the socket accepted.         *)
(***************************************************************************)
MaxData == 3
MaxSends == 2

SendData == UNION {[1..l -> {"a", "b"}] : l \in 0..MaxData}
SendResults == {-1, 0} \cup 1..MaxData
SendSchedules == UNION {[1..l -> SendResults] : l \in 0..MaxSends}

InitSend ==
    /\ Fields(0, "unconstructed")
    /\ rd = <<>>
    /\ rcall = <<>>
    /\ hcall = <<>>
    /\ \E wr \in SendSchedules :
          sock = [segs |-> <<>>, err |-> FALSE, wr |-> wr, out |-> <<>>]

\* send_all(client_fd, data, length) on the connection
CallSendAll(data) ==
    /\ rcall = <<>>
    /\ LET s == send_all(sock, data)
       IN  /\ sock' = s.sock
           /\ rcall' = <<[op |-> "send_all", arg |-> data,
                          out |-> IF s.ok THEN "ok" ELSE "failed",
                          data |-> s.sock.out, before |-> sock.wr]>>
    /\ UNCHANGED <<srvVars, rd, hcall>>

NextSend == \E data \in SendData : CallSendAll(data)

SpecSend == InitSend /\ [][NextSend]_vars

(***************************************************************************)
(* The server over its lifetime: start() may be called again after a       *)
(* start() that threw, and the server object is destroyed by the thread    *)
(* that owns it once no other call on it is under way.                     *)
(***************************************************************************)
\* TCPServer::close_socket(fd) on the listening descriptor: shutdown and
\* close.  "closed_twice": close() was given a descriptor number that was
\* closed already, which by then names no socket or somebody else's.
close_socket(fd, ls) ==
    IF fd >= 0
    THEN IF ls \in {"closed", "closed_twice"} THEN "closed_twice" ELSE "closed"
    ELSE ls

\* start() called again by the caller that caught the exception of a
\* failed start()
RetryStart(fail) ==
    /\ mpc = "start_threw"
    /\ StartBody(fail)

\* ~MultiThreadedTCPServer, then ~TCPServer, with the workers vector empty:
\* stop() unless the flag is set (exchange, TCPServer::stop, notify_all and
\* the join loop over no thread, the queue drained), then
\* close_socket(server_fd)
Destroy ==
    /\ mpc \in {"constructed", "start_threw", "run_threw", "returned"}
    /\ \A c \in Callers : spc[c] \in {"idle", "returned", "noop_returned"}
    /\ workers_size = 0
    /\ stop_requested' = TRUE
    /\ lsock' = close_socket(server_fd,
                    IF stop_requested THEN lsock
                    ELSE BaseStop(server_fd, lsock))
    /\ closed' = IF stop_requested THEN closed
                 ELSE CloseAll(client_queue, closed, MainThread)
    /\ client_queue' = IF stop_requested THEN client_queue ELSE <<>>
    /\ parked_at_stop' = IF stop_requested THEN parked_at_stop ELSE AllParked
    /\ mpc' = "destroyed"
    /\ UNCHANGED <<ctorVars, server_fd, workers_size, wpc, wfd, wout,
                   queue_mutex, afd, aerrno, next_conn, stopVars, popped,
                   handled, pushed_live, rdVars>>

NextLifetime ==
    \/ mpc # "destroyed" /\ Next
    \/ \E fail \in StartSteps : RetryStart(fail)
    \/ Destroy

SpecLifetime == Init /\ [][NextLifetime]_vars

(***************************************************************************)
(* Properties of the worker pool, the accept loop and stop().              *)
(***************************************************************************)
\* the connections accept() has returned so far
Accepted == 1..(next_conn - 1)
\* the connections the accept loop has pushed into the queue
Pushed == {c \in Accepted : afd # c}
AllWorkersEnded == \A w \in Workers : wpc[w] = "exited"
\* a full stop() has returned and run() has returned
ShutdownOver == mpc = "returned" /\ \E c \in Callers : spc[c] = "returned"
InQueue(c) == Cardinality({i \in 1..Len(client_queue) : client_queue[i] = c})
HeldBy(c) == {w \in Workers : wfd[w] = c}

C2_StopEventuallyReturns ==
    \A c \in 1..NumStoppers :
        (spc[c] = "base_stop") ~> (spc[c] = "returned" /\ AllWorkersEnded)

\* C3 as claimed: a descriptor is closed at most once, only by the worker
\* that popped it or by stop(), and once the server has shut down every
\* accepted descriptor has been closed exactly once.
C3_ClosedExactlyOnce ==
    /\ \A c \in Conns :
          /\ Len(closed[c]) <= 1
          /\ closed[c] # <<>> => closed[c] = popped[c] \/ closed[c][1] \in StopThreads
    /\ ShutdownOver => \A c \in Accepted : Len(closed[c]) = 1

\* C4 as claimed: once the stop() that shut the server down has returned,
\* the WorkQueue is empty.
C4_QueueEmptyAfterStop ==
    \A c \in Callers : spc[c] = "returned" => client_queue = <<>>

\* C5: every accepted descriptor that is still open is held by exactly one
\* of the acceptor, the queue and the workers, a closed one by none; a
\* descriptor is in the queue at most once and popped by at most one worker.
C5_SingleOwner ==
    \A c \in Conns :
        /\ InQueue(c) <= 1
        /\ Len(popped[c]) <= 1
        /\ (IF afd = c THEN 1 ELSE 0) + InQueue(c) + Cardinality(HeldBy(c))
              = IF c \in Accepted /\ closed[c] = <<>> THEN 1 ELSE 0

C5_Witness ==
    /\ client_queue # <<>>
    /\ \E w \in Workers : wfd[w] # NoFd /\ wpc[w] = "handle"

C7_AnyStopReturnMeansWorkersEnded ==
    \A c \in Callers :
        spc[c] \in {"returned", "noop_returned"} => AllWorkersEnded

\* C7 amended: when the call to stop() that set the StopFlag has returned,
\* every worker thread has terminated.
C7_FirstStopReturnMeansWorkersEnded ==
    \A c \in Callers : spc[c] = "returned" => AllWorkersEnded

C7_Witness ==
    /\ num_threads = MaxThreadsArg
    /\ \E c, d \in Callers : spc[c] = "returned" /\ spc[d] = "noop_returned"

\* C8 as claimed: constructing the server with a worker count of zero
\* raises, and no server with a substituted count comes into existence.
C8_ZeroThreadsRaises ==
    (mpc # "unconstructed" /\ threads_arg = 0)
        => (ctor_threw /\ mpc = "ctor_threw")


(***************************************************************************)
(* Properties of the reader.                                               *)
(***************************************************************************)
\* the offset (from 0) of the first occurrence of delim in s, -1 when none
FirstOcc(s, delim) ==
    LET hits == {k \in 0..(Len(s) - Len(delim)) :
                    SubSeq(s, k + 1, k + Len(delim)) = delim}
    IN  IF hits = {} THEN -1 ELSE CHOOSE k \in hits : \A j \in hits : k <= j

\* C9 as claimed: when the stream ahead of a read_until(delimiter) call
\* contains the delimiter, first at offset k, the call returns exactly the
\* first k+|delimiter| bytes, however the stream is cut into reads.
C9_ReadUntilReturnsThroughDelimiter ==
    \A i \in 1..Len(rcall) :
        LET c == rcall[i]
            k == FirstOcc(c.before, c.arg)
        IN  (c.op = "read_until" /\ k >= 0)
                => /\ c.out = "ok"
                   /\ c.data = SubSeq(c.before, 1, k + Len(c.arg))

\* C10 as claimed: on a stream that ends with end-of-stream, read_fixed(n)
\* returns the next n bytes when at least n are still to come, and fails
\* with the short-read error otherwise, however the bytes are delivered.
C10_ReadFixedReturnsExactlyN ==
    \A i \in 1..Len(rcall) :
        LET c == rcall[i]
        IN  (c.op = "read_fixed" /\ ~sock.err)
                => IF Len(c.before) >= c.arg
                   THEN c.out = "ok" /\ c.data = SubSeq(c.before, 1, c.arg)
                   ELSE c.out = "short_read"

(***************************************************************************)
(* Dispatch order and shutdown of the pool (part_002).                     *)
(***************************************************************************)

\* C15: connections are popped in the order in which the accept loop pushed
\* them.  Connection numbers follow the order of accept and push, so: when a
\* connection has been popped, every connection pushed before it has been
\* popped already.
C15_PoppedInPushOrder ==
    \A a, b \in Conns : (a < b /\ popped[b] # <<>>) => popped[a] # <<>>

\* both connections have been popped, by different workers, and both
\* handler calls are about to be made
C15_Witness ==
    \E w1, w2 \in Workers :
        /\ w1 # w2
        /\ popped[1] = <<w1>> /\ wpc[w1] = "handle"
        /\ popped[2] = <<w2>> /\ wpc[w2] = "handle"

\* C16 as claimed: once the StopFlag is set the queue never grows: no
\* step taken with the flag set pushes a descriptor.
C16_NoPushAfterStop ==
    [][stop_requested => Len(client_queue') <= Len(client_queue)]_vars

\* the connections that were in the queue when the StopFlag was set and
\* are in it still: those pushed while the flag was false that are in the
\* queue now that it is set
QueuedAtStop == {c \in pushed_live : stop_requested /\ InQueue(c) > 0}

\* the connections closed by stop()'s drain of the queue
ClosedByStop ==
    {c \in Conns : \E i \in 1..Len(closed[c]) : closed[c][i] \in StopThreads}

\* C17 as claimed: a connection that was in the queue when the StopFlag was
\* set is not taken out of the queue by a worker and no handler call is
\* made for it: it stays in the queue until stop() closes it.
C17_QueuedAtStopClosedUnhandled ==
    [][\A c \in QueuedAtStop :
          /\ InQueue(c)' > 0 \/ c \in ClosedByStop'
          /\ handled'[c] = <<>>]_vars

\* C17 amended: a connection that stop() finds in the queue when it drains
\* it, after joining the workers, is closed without ever having been popped
\* or handled, and it was pushed after the StopFlag was set; a connection
\* pushed before the flag was set, so also one that is in the queue at the
\* moment the flag is set, is not among them: once every worker has
\* terminated it has been handled once and closed by the worker that
\* handled it.
C17_DrainedNeverHandled ==
    /\ \A c \in ClosedByStop :
          popped[c] = <<>> /\ handled[c] = <<>> /\ c \notin pushed_live
    /\ AllWorkersEnded =>
          \A c \in pushed_live :
              /\ Len(handled[c]) = 1
              /\ closed[c] = handled[c]

\* one connection was pushed before the flag was set and has been handled
\* and closed by a worker, another was closed by stop()'s drain
C17_Witness ==
    /\ AllWorkersEnded
    /\ \E c \in pushed_live : Len(handled[c]) = 1 /\ closed[c] = handled[c]
    /\ ClosedByStop # {}

\* C18: a call to stop() made while the StopFlag is already set returns at
\* once and changes nothing: the listening socket, the pool, the queue, the
\* flag, the accept loop's locals and every other stop() call stay as they
\* were; only the caller moves on.
C18_SecondStopIsNoOp ==
    [][\A c \in Callers :
          (stop_requested /\ spc[c] = "idle" /\ spc'[c] # "idle") =>
              /\ spc' = [spc EXCEPT ![c] = "noop_returned"]
              /\ mpc' = MainAfterStop(c)
              /\ UNCHANGED <<ctorVars, lsnVars, poolVars, stop_requested, afd,
                             aerrno, next_conn, sjoin, histVars>>]_vars

\* a stop() call has returned as a no-op while the stop() that set the flag
\* is still at work
C18_Witness ==
    \E c, k \in Callers :
        /\ spc[c] = "noop_returned"
        /\ spc[k] \in {"base_stop", "notify_all", "join", "drain"}

\* the worker threads that are running
LiveWorkers == {w \in Workers : wpc[w] \notin {"unborn", "exited"}}

C20_FatalAcceptErrorEndsLoop ==
    [][(mpc = "accept_failed" /\ aerrno = "EINVAL" /\ ~stop_requested) =>
           mpc' # "loop"]_vars

(***************************************************************************)
(* Properties of the connection handler and the parser.                    *)
(***************************************************************************)
\* the ways a handle_connection call can return
HandlerEnds ==
    {"responded", "send_failed", "error_responded", "error_send_failed"}

\* C11 as claimed: for every request followed by the end of the stream the
\* handler call returns, having written a response or taken the failure
\* path.
C11_HandlerTerminates ==
    \A i \in 1..Len(hcall) : hcall[i].ret.out \in HandlerEnds

\* the bytes of the request the peer sent, and how many of them follow the
\* blank line that ends the header block (-1 when there is no blank line)
SentBytes(h) == Flatten(h.before.segs)
SentBodyLen(h) ==
    LET e == Find(SentBytes(h), CRLFCRLF, 0)
    IN  IF e = npos THEN -1 ELSE Len(SentBytes(h)) - (e + 4)

\* C12 as claimed: when the parser reads a body of the declared
\* Content-Length L and the peer has closed the connection after fewer than
\* L body bytes, the handler call ends on the failure path with the
\* short-read error.
C12_ShortBodyIsShortRead ==
    \A i \in 1..Len(hcall) :
        LET h == hcall[i]
            hd == h.ret.msg.headers
        IN  (/\ h.ret.framing = "fixed"
             /\ ~h.before.err
             /\ SentBodyLen(h) >= 0
             /\ ~stoul(hd[ContentLength], 10).threw
             /\ SentBodyLen(h) < stoul(hd[ContentLength], 10).val)
            => /\ h.ret.parse = "short_read"
               /\ h.ret.out \in {"error_responded", "error_send_failed"}

\* the body framing the headers call for
FramingOf(hd) ==
    IF TransferEncoding \in DOMAIN hd /\ hd[TransferEncoding] = Chunked
    THEN "chunked"
    ELSE IF ContentLength \in DOMAIN hd THEN "fixed"
    ELSE "none"

\* C14 as claimed: whenever the parser gets as far as choosing the body
\* framing, it chooses chunked for transfer-encoding: chunked, otherwise
\* fixed when there is a content-length header, otherwise none.
C14_FramingFollowsHeaders ==
    \A i \in 1..Len(hcall) :
        hcall[i].ret.framing # "unset" =>
            hcall[i].ret.framing = FramingOf(hcall[i].ret.msg.headers)

\* C13 as claimed: read_chunked on the chunked encoding of a body returns
\* that body, for every body, chunking, buffer size and split of the stream.
C13_ChunkedRoundTrip ==
    \A i \in 1..Len(rcall) :
        rcall[i].op = "read_chunked" =>
            rcall[i].out = "ok" /\ rcall[i].data = rcall[i].arg

(***************************************************************************)
(* The accept loop, the listening socket and shutdown with work in flight. *)
(***************************************************************************)
\* the accept errors that do not come from a socket that cannot accept:
\* interruption by a signal and transient exhaustion of resources
TransientErrnos == {"EINTR", "EAGAIN", "EMFILE"}

\* C21: while the StopFlag is false a failed accept with a transient error
\* does not end the accept loop: the loop goes back to its top with the
\* listening socket, the pool and the pending connections untouched (at once
\* for EINTR, after a sleep for the others), from the top it goes on to
\* accept, and there a pending connection is accepted and then pushed.
C21_TransientAcceptErrorRetries ==
    [][/\ (/\ mpc = "accept_failed" /\ aerrno \in TransientErrnos
           /\ ~stop_requested /\ mpc' # mpc)
          => /\ mpc' = "loop"
             /\ (RetryDelayMs(aerrno) = 0) <=> (aerrno = "EINTR")
             /\ UNCHANGED <<lsnVars, poolVars, next_conn, stop_requested>>
       /\ (mpc = "loop" /\ ~stop_requested /\ mpc' # mpc) => mpc' = "accept"
       /\ (mpc = "accept" /\ mpc' = "push") =>
             afd' = next_conn /\ next_conn' = next_conn + 1]_vars

\* after a failed accept with a transient error, with the StopFlag false,
\* a connection is still pending
C21_Witness ==
    /\ mpc = "accept_failed"
    /\ aerrno \in TransientErrnos \ {"EINTR"}
    /\ ~stop_requested
    /\ next_conn <= MaxConns
    /\ pushed_live # {}

\* the main thread is inside the accept loop of run()
InAcceptLoop == mpc \in {"loop", "accept", "accept_failed", "push", "notify"}

\* C22: when another thread's stop() has set the StopFlag while the main
\* thread is inside the accept loop, be it parked in accept or between two
\* steps of the loop, run() eventually returns.
C22_StopEndsRun ==
    \A c \in 1..NumStoppers :
        (spc[c] = "base_stop" /\ InAcceptLoop) ~> (mpc = "returned")

\* run() has returned after having accepted and pushed a connection with
\* the StopFlag false, the flag having been set by another thread's stop():
\* that stop() was called while the main thread was inside the loop
C22_Witness ==
    /\ mpc = "returned"
    /\ pushed_live # {}
    /\ lsock = "shut_rd"
    /\ \E c \in 1..NumStoppers : spc[c] \notin {"idle", "noop_returned"}

\* C23: the first start() ends either with a listening socket and the
\* workers spawned, or, when a step of the socket setup failed so that no
\* socket is listening, with the error raised to the caller, no worker
\* spawned and the pool, the queue and the flag untouched; start() makes no
\* second attempt: after the error nothing in the server moves any more.
C23_SetupFailurePropagates ==
    [][/\ (mpc = "constructed" /\ mpc' # mpc /\ mpc' # "loop" /\ mpc' # "run_threw")
          => /\ mpc' \in {"started", "start_threw"}
             /\ (mpc' = "started") <=> (lsock' = "listening")
             /\ (mpc' = "started") => workers_size' = num_threads
             /\ (mpc' = "start_threw") =>
                   /\ lsock' \in {"none", "closed"}
                   /\ workers_size' = 0
                   /\ \A w \in Workers : wpc'[w] = "unborn"
                   /\ UNCHANGED <<poolVars, stop_requested, histVars>>
       /\ mpc = "start_threw" => UNCHANGED srvVars]_vars

\* start() has failed after socket(): the descriptor is closed and no
\* worker thread exists
C23_Witness ==
    /\ mpc = "start_threw"
    /\ lsock = "closed"
    /\ workers_size = 0
    /\ \A w \in Workers : wpc[w] = "unborn"

\* C24 as claimed: once a stop() that shut the server down has returned the
\* server holds no listening descriptor any more (server_fd is -1 again and
\* the socket has been closed), and a start() made after that leaves the
\* server with a socket that is listening; there is one descriptor number
\* for the listening socket at most.
C24_ListeningSocketLifecycle ==
    [][/\ \A c \in Callers :
             spc'[c] = "returned" =>
                 server_fd' = NoFd /\ lsock' \in {"none", "closed"}
       /\ (mpc = "returned" /\ mpc' = "started") => lsock' = "listening"
       /\ server_fd' \in {NoFd, ListenFd}]_vars

\* C25: with the StopFlag set, a worker that holds a popped connection and
\* is at its handler call stays there until the call has ended and then
\* goes on to close the descriptor: no step of stop() moves it, takes the
\* descriptor from it or closes the descriptor.  The worker closes the
\* descriptor itself and returns to the queue wait, and a worker thread ends
\* only from the test under the mutex, holding no descriptor.  stop() does
\* not get past the join of a worker that has not ended.
C25_InFlightHandlerCompletes ==
    [][\A w \in Workers :
          /\ (stop_requested /\ wpc[w] = "handle" /\ wfd[w] >= 0) =>
                /\ wpc'[w] \in {"handle", "close"}
                /\ wfd'[w] = wfd[w]
                /\ closed'[wfd[w]] = <<>>
                /\ wpc'[w] = "close" => handled'[wfd[w]] = <<w>>
          /\ (stop_requested /\ wpc[w] = "close") =>
                /\ wpc'[w] \in {"close", "wait"}
                /\ wpc'[w] = "close" =>
                      wfd'[w] = wfd[w] /\ closed'[wfd[w]] = <<>>
                /\ wpc'[w] = "wait" => closed'[wfd[w]] = <<w>>
          /\ (wpc[w] # "exited" /\ wpc'[w] = "exited") =>
                wpc[w] = "check" /\ stop_requested /\ wfd[w] = NoFd
          /\ \A c \in Callers :
                (spc'[c] = "join" /\ wpc'[w] \in {"handle", "close"}) =>
                    sjoin'[c] <= w]_vars

\* stop() is waiting in join for a worker whose handler call, in progress
\* when the StopFlag was set or begun after it, has ended; the worker is
\* about to close the descriptor
C25_Witness ==
    \E w \in Workers : \E c \in 1..NumStoppers :
        /\ stop_requested
        /\ spc[c] = "join" /\ sjoin[c] = w
        /\ wpc[w] = "close" /\ wfd[w] \in pushed_live
        /\ handled[wfd[w]] = <<w>>

(***************************************************************************)
(* Properties of the handler's responses and of header parsing.            *)
(***************************************************************************)
\* the handler call met a failure: the parse did not produce a message, or
\* sending the success response failed
HandlerFailed(h) == h.ret.parse # "ok" \/ h.ret.out = "send_failed"

\* C26 as claimed: whenever the parse fails or a read or a send fails
\* during the connection, the failure of sending the success response
\* included, the handler call attempts to write the 500 response, whatever
\* becomes of that attempt, and returns; when the attempt succeeds the
\* 500 response is what the peer has been sent last.
C26_FailureGets500 ==
    \A i \in 1..Len(hcall) :
        LET h == hcall[i]
            sent == h.ret.sock.out
            n == Len(error_response)
        IN  HandlerFailed(h) =>
                /\ h.ret.out \in {"error_responded", "error_send_failed"}
                /\ h.ret.out = "error_responded" =>
                      /\ Len(sent) >= n
                      /\ SubSeq(sent, Len(sent) - n + 1, Len(sent)) = error_response

\* the bytes the peer sent after the blank line that ends the header block
SentBody(h) ==
    LET e == Find(SentBytes(h), CRLFCRLF, 0)
    IN  IF e = npos THEN <<>> ELSE SubstrFrom(SentBytes(h), e + 4)

\* body is the body of the request the peer sent, under the framing its
\* headers call for: nothing; the content-length bytes that follow the
\* header block; or what follows the header block is a chunked encoding
\* of body, up to the line that ends it
IsBodyOf(h, body) ==
    LET hd == h.ret.msg.headers
        framing == FramingOf(hd)
    IN  IF framing = "none" THEN body = <<>>
        ELSE IF framing = "fixed"
        THEN /\ ~stoul(hd[ContentLength], 10).threw
             /\ body = Substr(SentBody(h), 0, stoul(hd[ContentLength], 10).val)
             /\ Len(body) = stoul(hd[ContentLength], 10).val
        ELSE \E chunks \in Chunkings(body) :
                 LET n == Len(Encode(chunks)) - Len(CRLF)
                 IN  Substr(SentBody(h), 0, n) = Substr(Encode(chunks), 0, n)

\* C27 as claimed: when a request has been parsed and the response sent,
\* the peer has been sent the status line and headers with the length of
\* the request's body as Content-Length, followed by the request's body,
\* whether the request has no body, a body of Content-Length bytes or a
\* chunked body.
C27_ResponseEchoesBody ==
    \A i \in 1..Len(hcall) :
        LET h == hcall[i]
            body == h.ret.msg.body
        IN  (h.ret.parse = "ok" /\ h.ret.out = "responded") =>
                /\ IsBodyOf(h, body)
                /\ h.ret.sock.out = ResponseHeaders(body) \o body

\* s without the spaces and tabs at its left end, at its right end
RECURSIVE TrimLeft(_)
TrimLeft(s) ==
    IF s # <<>> /\ Head(s) \in {SP, HT} THEN TrimLeft(Tail(s)) ELSE s
RECURSIVE TrimRight(_)
TrimRight(s) ==
    IF s # <<>> /\ s[Len(s)] \in {SP, HT}
    THEN TrimRight(SubSeq(s, 1, Len(s) - 1)) ELSE s
Trim(s) == TrimLeft(TrimRight(s))

\* the header line of a block of one header line
OnlyLine(data) ==
    LET from == Find(data, CRLF, 0) + 2
    IN  Substr(data, from, Find(data, CRLF, from) - from)

\* C28 as claimed: a header line is stored under its key in lower case with
\* the spaces and tabs at both ends of the key removed, and its value is
\* what follows the colon with the spaces and tabs at both ends removed.
C28_HeaderKeyLoweredBothTrimmed ==
    \A i \in 1..Len(rcall) :
        LET c == rcall[i]
            line == OnlyLine(c.arg)
            colon == Find(line, <<":">>, 0)
            key == Trim([k \in 1..colon |-> tolower(line[k])])
            value == Trim(SubstrFrom(line, colon + 1))
        IN  c.op = "parse_headers" =>
                /\ c.out = "ok"
                /\ DOMAIN c.data = {key}
                /\ c.data[key] = value

\* C29 as claimed: when the stream ends before a blank line has arrived, so
\* that the header block read does not end in CRLF CRLF, the parse fails: it
\* ends with an error and no message reaches the handler.
C29_TruncatedHeaderBlockFails ==
    \A i \in 1..Len(hcall) :
        LET h == hcall[i]
        IN  Find(SentBytes(h), CRLFCRLF, 0) = npos =>
                /\ h.ret.parse \in ParseErrors
                /\ h.ret.out \in {"error_responded", "error_send_failed"}

\* the first line of a stream: the bytes before the first CRLF, or all of
\* them when no CRLF arrives
FirstLine(s) ==
    IF Find(s, CRLF, 0) = npos THEN s ELSE Substr(s, 0, Find(s, CRLF, 0))

HexDigits ==
    {"0", "1", "2", "3", "4", "5", "6", "7", "8", "9",
     "a", "b", "c", "d", "e", "f", "A", "B", "C", "D", "E", "F"}

\* s is a hexadecimal number
IsHex(s) == s # <<>> /\ \A k \in 1..Len(s) : s[k] \in HexDigits

\* C30 as claimed: when the chunk-size line is not a hexadecimal number,
\* the empty line included, or is cut short by the end of the stream,
\* read_chunked fails with the invalid-chunk-size error and returns no body.
C30_BadSizeLineIsInvalidChunkSize ==
    \A i \in 1..Len(rcall) :
        LET c == rcall[i]
        IN  (/\ c.op = "read_chunked"
             /\ Find(c.before, CRLF, 0) = npos \/ ~IsHex(FirstLine(c.before)))
                => c.out = "invalid_chunk_size" /\ c.data = <<>>

(***************************************************************************)
(* Further properties of the parser, the reader, send_all and the pool.    *)
(***************************************************************************)
\* C31: the parse ends with the malformed-request error only when what the
\* peer sent contains no CRLF, and on a stream that ends without a read
\* error it does so whenever that is the case; no message is produced then
\* and no body strategy chosen, and the handler takes its failure path.
C31_MalformedIffNoStartLine ==
    \A i \in 1..Len(hcall) :
        LET h == hcall[i]
            no_line == Find(SentBytes(h), CRLF, 0) = npos
        IN  /\ h.ret.parse = "invalid_http_format" => no_line
            /\ (no_line /\ ~h.before.err) => h.ret.parse = "invalid_http_format"
            /\ h.ret.parse = "invalid_http_format" =>
                  /\ h.ret.msg = EmptyMessage
                  /\ h.ret.framing = "unset"
                  /\ h.ret.out \in {"error_responded", "error_send_failed"}

\* the peer sent a start line without its CRLF and closed; the parse has
\* ended with the malformed-request error
C31_Witness ==
    \E i \in 1..Len(hcall) :
        /\ hcall[i].ret.parse = "invalid_http_format"
        /\ SentBytes(hcall[i]) = StartLine
        /\ hcall[i].ret.out = "error_responded"

\* the data returned by the first n calls made on the reader, in call order
RECURSIVE ReturnedUpTo(_)
ReturnedUpTo(n) ==
    IF n = 0 THEN <<>> ELSE ReturnedUpTo(n - 1) \o rcall[n].data

\* C32: what the read_until and read_fixed calls made on one reader have
\* returned, put together in call order, is the beginning of the byte
\* stream the socket delivers, and after every call that returned the bytes
\* still to come are the rest of that stream: nothing is lost, duplicated
\* or reordered, however the stream is cut into reads.
C32_ReturnedBytesArePrefix ==
    rcall # <<>> =>
        LET stream == rcall[1].before
        IN  \A n \in 1..Len(rcall) :
                LET got == ReturnedUpTo(n)
                IN  /\ got = SubSeq(stream, 1, Len(got))
                    /\ rcall[n].out = "ok" =>
                          Unread(rd, sock) = SubSeq(stream, Len(got) + 1, Len(stream))
                              \/ n < Len(rcall)
                    /\ (n < Len(rcall)) =>
                          rcall[n + 1].before =
                              SubSeq(stream, Len(got) + 1, Len(stream))

\* two calls have returned bytes of a stream that arrived in more than one
\* read
C32_Witness ==
    /\ Len(rcall) = 2
    /\ rcall[1].out = "ok" /\ rcall[1].data # <<>>
    /\ rcall[2].out = "ok" /\ rcall[2].data # <<>>
    /\ rcall[1].op # rcall[2].op

\* C33: send_all returns true only when the socket has accepted exactly the
\* data, in order, every send() call made having accepted at least one
\* byte; it returns false at the first send() call that fails or accepts
\* nothing, with a beginning of the data accepted and without another
\* send() call: the call that failed is the last one it made.
C33_SendAllReliable ==
    \A i \in 1..Len(rcall) :
        LET c == rcall[i]
            used == Len(c.before) - Len(sock.wr)
        IN  c.op = "send_all" =>
                /\ \A j \in 1..(used - 1) : c.before[j] > 0
                /\ sock.wr = SubSeq(c.before, used + 1, Len(c.before))
                /\ c.data = SubSeq(c.arg, 1, Len(c.data))
                /\ c.out = "ok" =>
                      /\ c.data = c.arg
                      /\ \A j \in 1..used : c.before[j] > 0
                /\ c.out = "failed" =>
                      /\ used >= 1
                      /\ c.before[used] <= 0
                      /\ Len(c.data) < Len(c.arg)

\* a send_all call has failed at its second send(), the first one having
\* accepted part of the data
C33_Witness ==
    \E i \in 1..Len(rcall) :
        /\ rcall[i].op = "send_all"
        /\ rcall[i].out = "failed"
        /\ Len(rcall[i].before) = 2
        /\ rcall[i].before[1] > 0
        /\ rcall[i].data # <<>>
        /\ sock.wr = <<>>

\* bytes are a response of the form the handler is to write: a status
\* line, Content-Type: text/plain, Content-Length with the length of the
\* body, Connection: close, a blank line and the body
IsResponse(bytes) ==
    LET e == Find(bytes, CRLF, 0)
        blank == Find(bytes, CRLFCRLF, 0)
        body == SubstrFrom(bytes, blank + 4)
    IN  /\ e # npos /\ blank # npos
        /\ Substr(bytes, 0, 9) = <<"H", "T", "T", "P", "/", "1", ".", "1", SP>>
        /\ SubstrFrom(bytes, e + 2)
              = HdrContentType \o HdrContentLength \o to_string(Len(body))
                    \o CRLF \o HdrConnectionClose \o body

\* C34 as claimed: whatever response a handler call has written in full,
\* the 200 response or the 500 response, has that form.
C34_ResponseFormat ==
    \A i \in 1..Len(hcall) :
        hcall[i].ret.out \in {"responded", "error_responded"} =>
            IsResponse(hcall[i].ret.sock.out)

\* C35: a worker thread ends only by the step it takes at the test under
\* the mutex, which it holds, with the StopFlag set and the queue empty, so
\* never while the flag is false; and a worker at that test with the queue
\* not empty pops the descriptor at the front, whether the flag is set or
\* not.
C35_ExitOnlyOnStopAndEmpty ==
    [][\A w \in Workers :
          /\ (wpc[w] # "exited" /\ wpc'[w] = "exited") =>
                /\ wpc[w] = "check"
                /\ queue_mutex = w
                /\ stop_requested
                /\ client_queue = <<>>
          /\ (wpc[w] = "check" /\ wpc'[w] # "check" /\ client_queue # <<>>) =>
                /\ queue_mutex = w
                /\ wpc'[w] = "handle"
                /\ wfd'[w] = Head(client_queue)
                /\ client_queue' = Tail(client_queue)]_vars

\* with the StopFlag set one worker has ended and another has popped a
\* connection that was pushed after the flag was set
C35_Witness ==
    \E w, v \in Workers :
        /\ stop_requested
        /\ wpc[w] = "exited"
        /\ wpc[v] = "handle" /\ wfd[v] >= 0 /\ wfd[v] \notin pushed_live

\* C36: a worker that leaves the condition wait, however it was woken,
\* goes back to take the mutex and evaluate the predicate; it goes on to
\* the test only when the predicate holds and otherwise parks again; and a
\* worker takes a descriptor only at that test, holding the mutex, from a
\* queue that is not empty, so the descriptor it holds at its handler call
\* is one that was in the queue.
C36_NoPopFromEmptyQueue ==
    [][\A w \in Workers :
          /\ (wpc[w] = "waiting" /\ wpc'[w] # "waiting") => wpc'[w] = "wait"
          /\ (wpc[w] = "wait" /\ wpc'[w] # "wait") =>
                /\ queue_mutex = 0 /\ queue_mutex' = w
                /\ wpc'[w] = IF WaitPred THEN "check" ELSE "prewait"
          /\ (wpc[w] # "handle" /\ wpc'[w] = "handle") =>
                /\ wpc[w] = "check"
                /\ queue_mutex = w
                /\ client_queue # <<>>
                /\ wfd'[w] = Head(client_queue)
                /\ wfd'[w] \in Conns
          /\ Len(client_queue') < Len(client_queue) =>
                client_queue # <<>>]_vars

\* two workers were after one connection: one has taken it, the other has
\* evaluated the predicate again, found the queue empty and is about to park
C36_Witness ==
    \E w, v \in Workers :
        /\ w # v
        /\ ~stop_requested
        /\ client_queue = <<>>
        /\ wpc[v] = "handle" /\ wfd[v] \in Conns
        /\ wpc[w] = "prewait"

\* C37 as claimed: the listening socket is shut down only with the StopFlag
\* already set, and whenever accept() has failed on the socket that stop()
\* shut down the accept loop sees the flag set and leaves through the stop
\* branch; it does not go round the loop again.
C37_ShutdownFailureExitsByStopBranch ==
    [][/\ (lsock # "shut_rd" /\ lsock' = "shut_rd") => stop_requested
       /\ (mpc = "accept_failed" /\ lsock = "shut_rd" /\ mpc' # mpc) =>
              (stop_requested /\ mpc' = "after_loop")]_vars

\* C38: no call of read_until or read_fixed comes to `bufflen_ - pos_` with
\* pos_ above bufflen_ (the outcome "ub"), and between calls the reader has
\* 0 <= pos_ <= bufflen_ <= buffer_.size(), the bytes read() has written
\* all lying inside the buffer; what a call returns was unread before it.
C38_ReaderIndicesInBounds ==
    /\ \A i \in 1..Len(rcall) :
          /\ rcall[i].op \in {"read_until", "read_fixed"} =>
                rcall[i].out # "ub"
          /\ rcall[i].out = "ok" =>
                /\ Len(rcall[i].data) <= Len(rcall[i].before)
                /\ rcall[i].data = SubSeq(rcall[i].before, 1, Len(rcall[i].data))
    /\ rd # <<>> =>
          /\ 0 <= rd.pos
          /\ rd.pos <= rd.bufflen
          /\ rd.bufflen <= rd.cap
          /\ Len(rd.buffer) <= rd.cap

\* a second call has started inside a buffer that the refill filled only
\* in part, and has used it up: pos_ = bufflen_ below the capacity
C38_Witness ==
    /\ Len(rcall) = 2
    /\ rcall[1].out = "ok" /\ rcall[1].data # <<>>
    /\ rcall[2].out = "ok" /\ rcall[2].data # <<>>
    /\ rd.bufflen < rd.cap
    /\ rd.pos = rd.bufflen
    /\ sock.segs = <<>>

\* s is the beginning of t
StartsWith(t, s) == Len(s) <= Len(t) /\ SubSeq(t, 1, Len(s)) = s

\* C39: what a handler call has written on the connection is the beginning
\* of one response.  After a parse that returned it is the beginning of the
\* 200 response for the parsed body, and the call did not end in the catch
\* block; after a parse that threw it is the beginning of the 500 response;
\* after a parse that did not end nothing has been written.
C39_AtMostOneResponse ==
    \A i \in 1..Len(hcall) :
        LET h == hcall[i].ret
        IN  /\ h.parse = "ok" =>
                  /\ StartsWith(ResponseHeaders(h.msg.body) \o h.msg.body,
                                h.sock.out)
                  /\ h.out \in {"responded", "send_failed"}
            /\ h.parse \in ParseErrors =>
                  /\ StartsWith(error_response, h.sock.out)
                  /\ h.out \in {"error_responded", "error_send_failed"}
            /\ h.parse \notin ParseErrors \cup {"ok"} => h.sock.out = <<>>

\* the sending of the 200 response began and then failed: the peer has a
\* part of the 200 response and nothing else
C39_Witness ==
    \E i \in 1..Len(hcall) :
        /\ hcall[i].ret.parse = "ok"
        /\ hcall[i].ret.out = "send_failed"
        /\ hcall[i].ret.sock.out # <<>>
        /\ StartsWith(StatusOk, hcall[i].ret.sock.out)

\* C40 as claimed: close() is never called on a listening descriptor that
\* is closed already; a live server whose listening descriptor has been
\* closed does not keep its number in server_fd; and whenever start() has
\* returned normally the server has a listening socket.
C40_ListeningDescriptorClosedOnce ==
    /\ lsock # "closed_twice"
    /\ (mpc # "destroyed" /\ lsock = "closed") => server_fd = NoFd
    /\ mpc = "started" => lsock \in {"listening", "shut_rd"}

=============================================================================
